---- MODULE Spec2Model ----
(***************************************************************************)
(* Saga orchestrator of demo-saga-pattern: SagaOrchestrator.execute_saga   *)
(* driving the event / event-details / venue / ticket participants over    *)
(* the shared in-memory database.                                          *)
(*                                                                         *)
(* Python values are modelled as follows.                                  *)
(*   dict            a function whose domain is the set of its keys        *)
(*   None / a value  the empty sequence << >> / the one-element << v >>    *)
(*   list            a sequence; Python index i is TLA+ index i + 1        *)
(*   uuid.uuid4()    the next value of the counter nextId (never reused)   *)
(* execute_saga is one thread of control; it is split into actions at the  *)
(* points where it waits for requests.request to return.                   *)
(***************************************************************************)
EXTENDS Integers, Sequences, FiniteSets, TLC

VARIABLES
    sagas,                \* transaction_id -> SagaTransaction object
    pc,                   \* transaction_id -> position of execute_saga in its code
    loop_i,               \* transaction_id -> loop variable i of execute_saga (line 50)
    completed_steps,      \* transaction_id -> what is left of reversed(completed_steps) (line 186)
    inflight,             \* transaction_id -> None or the request requests.request is waiting on
    summary,              \* transaction_id -> None or the dict execute_saga returned
    active_transactions,  \* orchestrator.active_transactions (its keys; each maps to sagas[id])
    events,               \* db.events
    event_details,        \* db.event_details
    venues,               \* db.venues
    tickets,              \* db.tickets
    transactions,         \* db.transactions (the Registry)
    nextId,               \* source of uuid4 values
    calls,                \* history: transaction_id -> the remote calls issued so far, in order
    status_reply,         \* None or the last response a client of the application got
    lock                  \* db.lock: None, or the Registry operation of the thread holding it

vars == <<sagas, pc, loop_i, completed_steps, inflight, summary, active_transactions,
          events, event_details, venues, tickets, transactions, nextId, calls,
          status_reply, lock>>

dbvars == <<events, event_details, venues, tickets>>

\* what the actions of execute_saga leave alone: the responses to the clients
\* and the lock as the Registry operations of the other requests hold it
appvars == <<status_reply, lock>>

----------------------------------------------------------------------------
(* Bounds of the model *)

\* longest generic saga (a list of catalogue steps) handed to execute_saga
MaxSteps == 3

\* number of sagas submitted to one application process, and number of
\* records ever put into the Registry by direct callers of the database
MaxSagas == 2

----------------------------------------------------------------------------
(* Python values *)

None == << >>
Some(v) == << v >>
IsSome(o) == o # << >>
Val(o) == o[1]

EmptyDict == [k \in {} |-> TRUE]
Has(d, k) == k \in DOMAIN d
Get(d, k, default) == IF k \in DOMAIN d THEN d[k] ELSE default
Put(d, k, v) == [x \in (DOMAIN d) \cup {k} |-> IF x = k THEN v ELSE d[x]]
Update(d, u) == [x \in (DOMAIN d) \cup (DOMAIN u) |-> IF x \in DOMAIN u THEN u[x] ELSE d[x]]
Del(d, k) == [x \in (DOMAIN d) \ {k} |-> d[x]]
\* truthiness of a dict
Truthy(d) == DOMAIN d # {}

\* the keys that can occur in a payload or a response body
IdKeys == {"event_id", "venue_id", "details_id", "ticket_id"}
\* key.endswith('_id') on the keys that occur
EndsWithId(key) == key \in IdKeys

----------------------------------------------------------------------------
(* app/database.py: SharedDatabase.  Each table is a dict from id to record. *)
(* A snapshot of the four resource tables is passed to the participants as   *)
(* one record db = [events, event_details, venues, tickets].                 *)

DB == [events |-> events, event_details |-> event_details,
       venues |-> venues, tickets |-> tickets]

create_event(db, event_id, event_data) ==
    [db EXCEPT !.events = Put(@, event_id,
        [id |-> event_id, name |-> Get(event_data, "name", "None"), status |-> "active"])]

delete_event(db, event_id) ==
    IF event_id \in DOMAIN db.events
    THEN [ok |-> TRUE, db |-> [db EXCEPT !.events = Del(@, event_id)]]
    ELSE [ok |-> FALSE, db |-> db]

\* self.events.get(event_id): None or the record
get_event(db, event_id) ==
    IF event_id \in DOMAIN db.events THEN Some(db.events[event_id]) ELSE None

create_event_details(db, details_id, event_id, details_data) ==
    [db EXCEPT !.event_details = Put(@, details_id,
        [id |-> details_id, event_id |-> event_id, status |-> "active"])]

\* mutant: the details record is reported deleted and kept
delete_event_detailsKeeps(db, details_id) ==
    IF details_id \in DOMAIN db.event_details
    THEN [ok |-> TRUE, db |-> db]
    ELSE [ok |-> FALSE, db |-> db]

delete_event_details(db, details_id) ==
    IF details_id \in DOMAIN db.event_details
    THEN [ok |-> TRUE, db |-> [db EXCEPT !.event_details = Del(@, details_id)]]
    ELSE [ok |-> FALSE, db |-> db]

create_venue(db, venue_id, venue_data) ==
    [db EXCEPT !.venues = Put(@, venue_id,
        [id |-> venue_id, name |-> Get(venue_data, "name", "None"), status |-> "active"])]

\* mutant: the venue is reported deleted and kept
delete_venueKeeps(db, venue_id) ==
    IF venue_id \in DOMAIN db.venues
    THEN [ok |-> TRUE, db |-> db]
    ELSE [ok |-> FALSE, db |-> db]

delete_venue(db, venue_id) ==
    IF venue_id \in DOMAIN db.venues
    THEN [ok |-> TRUE, db |-> [db EXCEPT !.venues = Del(@, venue_id)]]
    ELSE [ok |-> FALSE, db |-> db]

get_venue(db, venue_id) ==
    IF venue_id \in DOMAIN db.venues THEN Some(db.venues[venue_id]) ELSE None

\* ticket_data.get('event_id') / .get('venue_id'): both keys are present whenever
\* register_ticket reaches create_ticket (its required_fields check)
create_ticket(db, ticket_id, ticket_data) ==
    [db EXCEPT !.tickets = Put(@, ticket_id,
        [id |-> ticket_id, event_id |-> ticket_data["event_id"],
         venue_id |-> ticket_data["venue_id"], status |-> "active"])]

delete_ticket(db, ticket_id) ==
    IF ticket_id \in DOMAIN db.tickets
    THEN [ok |-> TRUE, db |-> [db EXCEPT !.tickets = Del(@, ticket_id)]]
    ELSE [ok |-> FALSE, db |-> db]

\* Registry.  create_transaction draws its own uuid4 as the key and ignores
\* transaction_data['id'].
create_transaction(txs, new_id, transaction_data) ==
    Put(txs, new_id,
        [id |-> new_id,
         status |-> Get(transaction_data, "status", "pending"),
         steps |-> Get(transaction_data, "steps", << >>),
         metadata |-> Get(transaction_data, "metadata", EmptyDict)])

\* mutant: a record is made when the id is not a key
update_transactionUpserts(txs, transaction_id, updates) ==
    IF transaction_id \in DOMAIN txs
    THEN [txs EXCEPT ![transaction_id] = Update(@, updates)]
    ELSE Put(txs, transaction_id, updates)

\* the table after update_transaction (unchanged when it returns False)
update_transaction(txs, transaction_id, updates) ==
    IF transaction_id \in DOMAIN txs
    THEN [txs EXCEPT ![transaction_id] = Update(@, updates)]
    ELSE txs

get_transaction(txs, transaction_id) ==
    IF transaction_id \in DOMAIN txs THEN Some(txs[transaction_id]) ELSE None

----------------------------------------------------------------------------
(* app/apis/*.py: the participants.  A register handler gets the JSON body  *)
(* data and the id its create_* call would draw; it yields the response and *)
(* the tables after it.                                                      *)

Response(status_code, body, db) == [status_code |-> status_code, body |-> body, db |-> db]
ErrorBody(msg) == [error |-> msg]
Missing(data, required_fields) == \E field \in required_fields : ~Has(data, field)

register_event(data, db, new_id) ==
    IF ~Truthy(data) THEN Response(400, ErrorBody("No data provided"), db)
    ELSE IF Missing(data, {"name", "description", "date"})
        THEN Response(400, ErrorBody("field is required"), db)
    ELSE IF Get(data, "simulate_failure", FALSE) = TRUE
        THEN Response(500, ErrorBody("Simulated failure"), db)
    ELSE Response(201,
            [success |-> TRUE, event_id |-> new_id, message |-> "registered"],
            create_event(db, new_id, data))

register_event_details(data, db, new_id) ==
    IF ~Truthy(data) THEN Response(400, ErrorBody("No data provided"), db)
    ELSE IF Missing(data, {"event_id", "detailed_description", "duration", "category"})
        THEN Response(400, ErrorBody("field is required"), db)
    ELSE IF ~IsSome(get_event(db, data["event_id"]))
        THEN Response(400, ErrorBody("Related event not found"), db)
    ELSE IF Get(data, "simulate_failure", FALSE) = TRUE
        THEN Response(500, ErrorBody("Simulated failure"), db)
    ELSE Response(201,
            [success |-> TRUE, details_id |-> new_id, event_id |-> data["event_id"],
             message |-> "registered"],
            create_event_details(db, new_id, data["event_id"], data))

register_venue(data, db, new_id) ==
    IF ~Truthy(data) THEN Response(400, ErrorBody("No data provided"), db)
    ELSE IF Missing(data, {"name", "address", "capacity"})
        THEN Response(400, ErrorBody("field is required"), db)
    ELSE IF Get(data, "simulate_failure", FALSE) = TRUE
        THEN Response(500, ErrorBody("Simulated failure"), db)
    ELSE Response(201,
            [success |-> TRUE, venue_id |-> new_id, message |-> "registered"],
            create_venue(db, new_id, data))

\* mutant: the ticket is created before the related venue is looked up
register_ticketCreatesFirst(data, db, new_id) ==
    IF ~Truthy(data) THEN Response(400, ErrorBody("No data provided"), db)
    ELSE IF Missing(data, {"event_id", "venue_id", "ticket_type", "price", "quantity"})
        THEN Response(400, ErrorBody("field is required"), db)
    ELSE IF ~IsSome(get_event(db, data["event_id"]))
        THEN Response(400, ErrorBody("Related event not found"), db)
    ELSE IF ~IsSome(get_venue(db, data["venue_id"]))
        THEN Response(400, ErrorBody("Related venue not found"), create_ticket(db, new_id, data))
    ELSE IF Get(data, "simulate_failure", FALSE) = TRUE
        THEN Response(500, ErrorBody("Simulated failure"), db)
    ELSE Response(201,
            [success |-> TRUE, ticket_id |-> new_id, event_id |-> data["event_id"],
             venue_id |-> data["venue_id"], message |-> "registered"],
            create_ticket(db, new_id, data))

register_ticket(data, db, new_id) ==
    IF ~Truthy(data) THEN Response(400, ErrorBody("No data provided"), db)
    ELSE IF Missing(data, {"event_id", "venue_id", "ticket_type", "price", "quantity"})
        THEN Response(400, ErrorBody("field is required"), db)
    ELSE IF ~IsSome(get_event(db, data["event_id"]))
        THEN Response(400, ErrorBody("Related event not found"), db)
    ELSE IF ~IsSome(get_venue(db, data["venue_id"]))
        THEN Response(400, ErrorBody("Related venue not found"), db)
    ELSE IF Get(data, "simulate_failure", FALSE) = TRUE
        THEN Response(500, ErrorBody("Simulated failure"), db)
    ELSE Response(201,
            [success |-> TRUE, ticket_id |-> new_id, event_id |-> data["event_id"],
             venue_id |-> data["venue_id"], message |-> "registered"],
            create_ticket(db, new_id, data))

\* A rollback handler gets the id segment of the URL: Some(id), or None when
\* the placeholder was left in the URL (a text that is the id of no record).
RollbackReply(deleted) ==
    IF deleted.ok
    THEN Response(200, [success |-> TRUE, message |-> "rolled back"], deleted.db)
    ELSE Response(404, ErrorBody("not found"), deleted.db)

NotDeleted(db) == [ok |-> FALSE, db |-> db]

\* mutant: the handler deletes every event
rollback_eventDeletesAll(target, db) ==
    Response(200, [success |-> TRUE, message |-> "rolled back"],
             [db EXCEPT !.events = EmptyDict])

rollback_event(target, db) ==
    RollbackReply(IF IsSome(target) THEN delete_event(db, Val(target)) ELSE NotDeleted(db))

rollback_event_details(target, db) ==
    RollbackReply(IF IsSome(target) THEN delete_event_details(db, Val(target)) ELSE NotDeleted(db))

rollback_venue(target, db) ==
    RollbackReply(IF IsSome(target) THEN delete_venue(db, Val(target)) ELSE NotDeleted(db))

rollback_ticket(target, db) ==
    RollbackReply(IF IsSome(target) THEN delete_ticket(db, Val(target)) ELSE NotDeleted(db))

\* main.py: the url_prefix of each blueprint routes a URL to its handler
Apis == {"event", "event-details", "venue", "ticket"}

RouteRegister(api, data, db, new_id) ==
    CASE api = "event" -> register_event(data, db, new_id)
      [] api = "event-details" -> register_event_details(data, db, new_id)
      [] api = "venue" -> register_venue(data, db, new_id)
      [] api = "ticket" -> register_ticket(data, db, new_id)

RouteRollback(api, target, db) ==
    CASE api = "event" -> rollback_event(target, db)
      [] api = "event-details" -> rollback_event_details(target, db)
      [] api = "venue" -> rollback_venue(target, db)
      [] api = "ticket" -> rollback_ticket(target, db)


----------------------------------------------------------------------------
(* app/saga/saga_models.py *)

\* SagaStep as constructed: status PENDING, result None, error None.  url and
\* rollback_url are kept as the API they address; a rollback_url is None or
\* Some([api, key]) for ".../api/<api>/rollback/{<key>}".  method and
\* rollback_method keep their defaults (POST, DELETE) in every saga built here.
SagaStep(name, url, payload, rollback_url) ==
    [name |-> name, url |-> url, payload |-> payload, rollback_url |-> rollback_url,
     status |-> "pending", result |-> None, error |-> None]

RollbackUrl(api, key) == Some([api |-> api, key |-> key])

SagaTransaction(transaction_id, name, steps, metadata) ==
    [transaction_id |-> transaction_id, name |-> name, steps |-> steps,
     status |-> "pending", current_step_index |-> 0, metadata |-> metadata]

\* the indices (Python, from 0) of the steps whose status is COMPLETED, ascending
RECURSIVE CompletedFrom(_, _)
CompletedFrom(steps, i) ==
    IF i >= Len(steps) THEN << >>
    ELSE IF steps[i + 1].status = "completed"
         THEN << i >> \o CompletedFrom(steps, i + 1)
         ELSE CompletedFrom(steps, i + 1)

get_completed_steps(saga_transaction) == CompletedFrom(saga_transaction.steps, 0)

to_dict(saga_transaction) ==
    [transaction_id |-> saga_transaction.transaction_id,
     name |-> saga_transaction.name,
     status |-> saga_transaction.status,
     current_step_index |-> saga_transaction.current_step_index,
     metadata |-> saga_transaction.metadata,
     steps |-> saga_transaction.steps]

\* mutant: a failure flagged for the venue step is also set on the ticket step
create_event_management_sagaFlagsOn(event_data, transaction_id) ==
    LET fail_at_step == Get(event_data, "fail_at_step", "None")
        event_payload ==
            [name |-> Get(event_data, "name", "Sample Event"),
             description |-> Get(event_data, "description", "Sample event description"),
             date |-> Get(event_data, "date", "2024-12-31"),
             simulate_failure |-> (fail_at_step = "event")]
        venue_payload ==
            [name |-> Get(event_data, "venue_name", "Sample Venue"),
             address |-> Get(event_data, "venue_address", "Tokyo, Japan"),
             capacity |-> Get(event_data, "venue_capacity", "1000"),
             facilities |-> Get(event_data, "venue_facilities", "Stage"),
             simulate_failure |-> (fail_at_step = "venue")]
        steps == <<
            SagaStep("Event Registration", "event", event_payload,
                     RollbackUrl("event", "event_id")),
            SagaStep("Event Details Registration", "event-details",
                     [detailed_description |-> Get(event_data, "detailed_description", "Detailed"),
                      duration |-> Get(event_data, "duration", "120"),
                      category |-> Get(event_data, "category", "Entertainment"),
                      requirements |-> Get(event_data, "requirements", "Tickets required"),
                      simulate_failure |-> (fail_at_step = "event_details")],
                     RollbackUrl("event-details", "details_id")),
            SagaStep("Venue Registration", "venue", venue_payload,
                     RollbackUrl("venue", "venue_id")),
            SagaStep("Ticket Registration", "ticket",
                     [ticket_type |-> Get(event_data, "ticket_type", "General Admission"),
                      price |-> Get(event_data, "ticket_price", "5000"),
                      quantity |-> Get(event_data, "ticket_quantity", "500"),
                      simulate_failure |-> (fail_at_step \in {"venue", "ticket"})],
                     RollbackUrl("ticket", "ticket_id")) >>
    IN SagaTransaction(transaction_id, "Event Management Saga", steps, event_data)

create_event_management_saga(event_data, transaction_id) ==
    LET fail_at_step == Get(event_data, "fail_at_step", "None")
        event_payload ==
            [name |-> Get(event_data, "name", "Sample Event"),
             description |-> Get(event_data, "description", "Sample event description"),
             date |-> Get(event_data, "date", "2024-12-31"),
             simulate_failure |-> (fail_at_step = "event")]
        venue_payload ==
            [name |-> Get(event_data, "venue_name", "Sample Venue"),
             address |-> Get(event_data, "venue_address", "Tokyo, Japan"),
             capacity |-> Get(event_data, "venue_capacity", "1000"),
             facilities |-> Get(event_data, "venue_facilities", "Stage"),
             simulate_failure |-> (fail_at_step = "venue")]
        steps == <<
            SagaStep("Event Registration", "event", event_payload,
                     RollbackUrl("event", "event_id")),
            SagaStep("Event Details Registration", "event-details",
                     [detailed_description |-> Get(event_data, "detailed_description", "Detailed"),
                      duration |-> Get(event_data, "duration", "120"),
                      category |-> Get(event_data, "category", "Entertainment"),
                      requirements |-> Get(event_data, "requirements", "Tickets required"),
                      simulate_failure |-> (fail_at_step = "event_details")],
                     RollbackUrl("event-details", "details_id")),
            SagaStep("Venue Registration", "venue", venue_payload,
                     RollbackUrl("venue", "venue_id")),
            SagaStep("Ticket Registration", "ticket",
                     [ticket_type |-> Get(event_data, "ticket_type", "General Admission"),
                      price |-> Get(event_data, "ticket_price", "5000"),
                      quantity |-> Get(event_data, "ticket_quantity", "500"),
                      simulate_failure |-> (fail_at_step = "ticket")],
                     RollbackUrl("ticket", "ticket_id")) >>
    IN SagaTransaction(transaction_id, "Event Management Saga", steps, event_data)


----------------------------------------------------------------------------
(* app/saga/saga_orchestrator.py: SagaOrchestrator *)

Reverse(seq) == [k \in 1..Len(seq) |-> seq[Len(seq) + 1 - k]]

\* mutant: every key ending in "_id" is copied
PropagatedKeysEveryId == IdKeys

\* the keys _prepare_step_payload copies (lines 168-173)
PropagatedKeys == {"event_id", "venue_id", "details_id"}

\* mutant: a key of the step's own template is not overwritten
CopyIdsKeepsTemplate(payload, result) ==
    [k \in (DOMAIN payload) \cup (PropagatedKeys \cap DOMAIN result) |->
        IF k \in DOMAIN payload THEN payload[k] ELSE result[k]]

\* one pass of the loop body of _prepare_step_payload over a completed step
CopyIds(payload, result) ==
    [k \in (DOMAIN payload) \cup (PropagatedKeys \cap DOMAIN result) |->
        IF k \in PropagatedKeys \cap DOMAIN result THEN result[k] ELSE payload[k]]

RECURSIVE MergeCompleted(_, _, _)
MergeCompleted(payload, steps, idxs) ==
    IF idxs = << >> THEN payload
    ELSE LET result == steps[Head(idxs) + 1].result
         IN MergeCompleted(
                IF IsSome(result) /\ Truthy(Val(result))
                THEN CopyIds(payload, Val(result)) ELSE payload,
                steps, Tail(idxs))

prepare_step_payload(step, saga_transaction) ==
    MergeCompleted(step.payload, saga_transaction.steps,
                   get_completed_steps(saga_transaction))

\* mutant: the URL is filled with the event_id of the result when it has one
RollbackTargetEventId(step) ==
    LET url == Val(step.rollback_url)
        result == Val(step.result)
    IN IF "event_id" \in DOMAIN result
       THEN Some(result["event_id"])
       ELSE IF url.key \in DOMAIN result /\ EndsWithId(url.key)
       THEN Some(result[url.key]) ELSE None

\* lines 198-202: the id segment of the rollback URL after the placeholders
\* of the step's own result have been substituted
RollbackTarget(step) ==
    LET url == Val(step.rollback_url)
        result == Val(step.result)
    IN IF url.key \in DOMAIN result /\ EndsWithId(url.key)
       THEN Some(result[url.key]) ELSE None

\* a request handed to requests.request
Request(op, index, url, json, target) ==
    [op |-> op, index |-> index, url |-> url, json |-> json, target |-> target]

\* a history entry: the request, and how the call ended (net: "response",
\* "undecodable", "transport_error", or "unexpected" for an exception that is
\* not a RequestException) with the status code of the response, when there
\* was one
Call(req) == [req |-> req, net |-> "pending", status_code |-> None]

Issue(t, req) ==
    /\ inflight' = [inflight EXCEPT ![t] = Some(req)]
    /\ calls' = [calls EXCEPT ![t] = Append(@, Call(req))]

Conclude(t, net, status_code) ==
    /\ inflight' = [inflight EXCEPT ![t] = None]
    /\ calls' = [calls EXCEPT ![t][Len(calls[t])] =
                    [@ EXCEPT !.net = net, !.status_code = status_code]]

SetDB(db) ==
    /\ events' = db.events
    /\ event_details' = db.event_details
    /\ venues' = db.venues
    /\ tickets' = db.tickets


\* line 136 / line 211: the status codes taken as success
StepSucceeded(status_code) == status_code \in {200, 201}
RollbackSucceeded(status_code) == status_code \in {200, 204}

\* mutant: the error is written, the status is not
MarkFailedKeepsStatus(step, error) == [step EXCEPT !.error = Some(error)]

\* mutants: the status is not written
MarkCompletedKeepsStatus(step, body) == [step EXCEPT !.result = Some(body)]
MarkCompensatedKeepsStatus(step) == step

\* lines 137-139, 144-146 and 152-154, line 212: what is written to the step
MarkCompleted(step, body) == [step EXCEPT !.status = "completed", !.result = Some(body)]
MarkFailed(step, error) == [step EXCEPT !.status = "failed", !.error = Some(error)]
MarkCompensated(step) == [step EXCEPT !.status = "compensated"]

\* line 145: f"HTTP {response.status_code}: ..."
HttpError(status_code) ==
    CASE status_code = 400 -> "HTTP 400"
      [] status_code = 404 -> "HTTP 404"
      [] status_code = 500 -> "HTTP 500"
      [] OTHER -> "HTTP"

\* mutant: the sweep is not reversed
RollbackOrderForward(saga_transaction) == get_completed_steps(saga_transaction)

\* lines 184-186: the order of the rollback sweep
RollbackOrder(saga_transaction) == Reverse(get_completed_steps(saga_transaction))

\* line 187: if step.rollback_url and step.result
HasCompensation(step) ==
    IsSome(step.rollback_url) /\ IsSome(step.result) /\ Truthy(Val(step.result))

\* mutant: the status is set to in_progress before the dict is made
RegistryEntryInProgress(saga_transaction) ==
    [id |-> saga_transaction.transaction_id,
     status |-> "in_progress",
     steps |-> [k \in 1..Len(saga_transaction.steps) |-> saga_transaction.steps[k].name],
     metadata |-> saga_transaction.metadata]

\* lines 38-43: the dict handed to db.create_transaction
RegistryEntry(saga_transaction) ==
    [id |-> saga_transaction.transaction_id,
     status |-> saga_transaction.status,
     steps |-> [k \in 1..Len(saga_transaction.steps) |-> saga_transaction.steps[k].name],
     metadata |-> saga_transaction.metadata]

\* mutant: the summary names the first step of the saga
FailureSummaryNamesFirstStep(saga_transaction, step) ==
    [success |-> FALSE, transaction_id |-> saga_transaction.transaction_id,
     status |-> saga_transaction.status, message |-> "Saga failed at step",
     failed_step |-> saga_transaction.steps[1].name, rollback_completed |-> TRUE]

\* mutant: the summary counts the steps by current_step_index
SuccessSummaryCountsIndex(saga_transaction) ==
    [success |-> TRUE, transaction_id |-> saga_transaction.transaction_id,
     status |-> saga_transaction.status, message |-> "All steps completed successfully",
     completed_steps |-> saga_transaction.current_step_index]

\* lines 72-79, 93-99, 111-116: the dicts execute_saga returns
FailureSummary(saga_transaction, step) ==
    [success |-> FALSE, transaction_id |-> saga_transaction.transaction_id,
     status |-> saga_transaction.status, message |-> "Saga failed at step",
     failed_step |-> step.name, rollback_completed |-> TRUE]

SuccessSummary(saga_transaction) ==
    [success |-> TRUE, transaction_id |-> saga_transaction.transaction_id,
     status |-> saga_transaction.status, message |-> "All steps completed successfully",
     completed_steps |-> Len(saga_transaction.steps)]

ErrorSummary(saga_transaction) ==
    [success |-> FALSE, transaction_id |-> saga_transaction.transaction_id,
     status |-> saga_transaction.status, message |-> "Saga execution failed"]

----------------------------------------------------------------------------
(* Construction of a transaction by the caller of execute_saga *)

NewTransaction(saga_transaction) ==
    LET t == saga_transaction.transaction_id
    IN /\ sagas' = Put(sagas, t, saga_transaction)
       /\ pc' = Put(pc, t, "created")
       /\ loop_i' = Put(loop_i, t, 0)
       /\ completed_steps' = Put(completed_steps, t, << >>)
       /\ inflight' = Put(inflight, t, None)
       /\ summary' = Put(summary, t, None)
       /\ calls' = Put(calls, t, << >>)
       /\ nextId' = nextId + 1
       /\ UNCHANGED <<active_transactions, dbvars, transactions>>

\* the /execute and /demo endpoints: create_event_management_saga(data)
BuildEventManagementSaga(event_data) ==
    NewTransaction(create_event_management_saga(event_data, nextId))

\* any other caller: a transaction whose steps address the four APIs
BuildSaga(steps) ==
    NewTransaction(SagaTransaction(nextId, "Saga", steps, EmptyDict))

----------------------------------------------------------------------------
(* execute_saga *)

\* lines 32-46
ExecuteSagaBegin(t) ==
    /\ pc[t] = "created"
    /\ active_transactions' = active_transactions \cup {t}
    /\ transactions' = create_transaction(transactions, nextId, RegistryEntry(sagas[t]))
    /\ nextId' = nextId + 1
    /\ sagas' = [sagas EXCEPT ![t].status = "in_progress"]
    /\ loop_i' = [loop_i EXCEPT ![t] = 0]
    /\ pc' = [pc EXCEPT ![t] = "loop"]
    /\ UNCHANGED <<completed_steps, inflight, summary, dbvars, calls>>

\* mutant: the steps from i on are all started when the loop reaches step i
ExecuteStepCallStartsRest(t) ==
    /\ pc[t] = "loop"
    /\ loop_i[t] < Len(sagas[t].steps)
    /\ LET i == loop_i[t]
           started == [sagas[t] EXCEPT
                          !.current_step_index = i,
                          !.steps = [k \in 1..Len(@) |->
                                        IF k > i THEN [@[k] EXCEPT !.status = "in_progress"]
                                        ELSE @[k]]]
           step == started.steps[i + 1]
       IN /\ sagas' = [sagas EXCEPT ![t] = started]
          /\ Issue(t, Request("forward", i, step.url, prepare_step_payload(step, started), None))
    /\ pc' = [pc EXCEPT ![t] = "await_step"]
    /\ UNCHANGED <<loop_i, completed_steps, summary, active_transactions, dbvars,
                   transactions, nextId>>

\* mutant: the loop does not write current_step_index
ExecuteStepCallKeepsIndex(t) ==
    /\ pc[t] = "loop"
    /\ loop_i[t] < Len(sagas[t].steps)
    /\ LET i == loop_i[t]
           started == [sagas[t] EXCEPT !.steps[i + 1].status = "in_progress"]
           step == started.steps[i + 1]
       IN /\ sagas' = [sagas EXCEPT ![t] = started]
          /\ Issue(t, Request("forward", i, step.url, prepare_step_payload(step, started), None))
    /\ pc' = [pc EXCEPT ![t] = "await_step"]
    /\ UNCHANGED <<loop_i, completed_steps, summary, active_transactions, dbvars,
                   transactions, nextId>>

\* lines 50-53 and 122-134: the loop reaches step i and sends its request
ExecuteStepCall(t) ==
    /\ pc[t] = "loop"
    /\ loop_i[t] < Len(sagas[t].steps)
    /\ LET i == loop_i[t]
           started == [sagas[t] EXCEPT !.current_step_index = i,
                                       !.steps[i + 1].status = "in_progress"]
           step == started.steps[i + 1]
       IN /\ sagas' = [sagas EXCEPT ![t] = started]
          /\ Issue(t, Request("forward", i, step.url, prepare_step_payload(step, started), None))
    /\ pc' = [pc EXCEPT ![t] = "await_step"]
    /\ UNCHANGED <<loop_i, completed_steps, summary, active_transactions, dbvars,
                   transactions, nextId>>

\* mutant: the loop passes over the step after a completed one
StepReturnsTrueSkipsNext(t, step) ==
    /\ sagas' = [sagas EXCEPT ![t].steps[loop_i[t] + 1] = step]
    /\ loop_i' = [loop_i EXCEPT ![t] = IF @ + 2 < Len(sagas[t].steps) THEN @ + 2 ELSE @ + 1]
    /\ pc' = [pc EXCEPT ![t] = "loop"]
    /\ UNCHANGED <<completed_steps, summary>>

\* _execute_step returned True: the loop goes on with i + 1
StepReturnsTrue(t, step) ==
    /\ sagas' = [sagas EXCEPT ![t].steps[loop_i[t] + 1] = step]
    /\ loop_i' = [loop_i EXCEPT ![t] = @ + 1]
    /\ pc' = [pc EXCEPT ![t] = "loop"]
    /\ UNCHANGED <<completed_steps, summary>>

\* mutant: the loop goes on after a failed step
StepReturnsFalseGoesOn(t, step) == StepReturnsTrue(t, step)

\* mutant: a step that fails for the first time is tried once more
StepReturnsFalseRetries(t, step) ==
    IF IsSome(sagas[t].steps[loop_i[t] + 1].error)
    THEN LET failed == [sagas[t] EXCEPT !.steps[loop_i[t] + 1] = step,
                                        !.status = "compensating"]
         IN /\ sagas' = [sagas EXCEPT ![t] = failed]
            /\ completed_steps' = [completed_steps EXCEPT ![t] = RollbackOrder(failed)]
            /\ pc' = [pc EXCEPT ![t] = "rollback"]
            /\ UNCHANGED <<loop_i, summary>>
    ELSE /\ sagas' = [sagas EXCEPT ![t].steps[loop_i[t] + 1] = step]
         /\ pc' = [pc EXCEPT ![t] = "loop"]
         /\ UNCHANGED <<loop_i, completed_steps, summary>>

\* mutant: the status is not set to compensating before the sweep
StepReturnsFalseKeepsInProgress(t, step) ==
    LET failed == [sagas[t] EXCEPT !.steps[loop_i[t] + 1] = step]
    IN /\ sagas' = [sagas EXCEPT ![t] = failed]
       /\ completed_steps' = [completed_steps EXCEPT ![t] = RollbackOrder(failed)]
       /\ pc' = [pc EXCEPT ![t] = "rollback"]
       /\ UNCHANGED <<loop_i, summary>>

\* mutant: the status is set to compensated before the sweep
StepReturnsFalseSetsCompensated(t, step) ==
    LET failed == [sagas[t] EXCEPT !.steps[loop_i[t] + 1] = step,
                                   !.status = "compensated"]
    IN /\ sagas' = [sagas EXCEPT ![t] = failed]
       /\ completed_steps' = [completed_steps EXCEPT ![t] = RollbackOrder(failed)]
       /\ pc' = [pc EXCEPT ![t] = "rollback"]
       /\ UNCHANGED <<loop_i, summary>>

\* _execute_step returned False: lines 57-62 up to the start of the sweep
StepReturnsFalse(t, step) ==
    LET failed == [sagas[t] EXCEPT !.steps[loop_i[t] + 1] = step,
                                   !.status = "compensating"]
    IN /\ sagas' = [sagas EXCEPT ![t] = failed]
       /\ completed_steps' = [completed_steps EXCEPT ![t] = RollbackOrder(failed)]
       /\ pc' = [pc EXCEPT ![t] = "rollback"]
       /\ UNCHANGED <<loop_i, summary>>

\* mutant: the handler does not set the status
ExceptionHandlerKeepsStatus(t, saga_transaction) ==
    /\ sagas' = [sagas EXCEPT ![t] = saga_transaction]
    /\ transactions' = update_transaction(transactions, t,
                           [status |-> saga_transaction.status, error |-> "str(e)"])
    /\ summary' = [summary EXCEPT ![t] = Some(ErrorSummary(saga_transaction))]
    /\ pc' = [pc EXCEPT ![t] = "returned"]
    /\ UNCHANGED <<loop_i, completed_steps>>

\* lines 101-116: an exception left the try block
ExceptionHandler(t, saga_transaction) ==
    LET failed == [saga_transaction EXCEPT !.status = "failed"]
    IN /\ sagas' = [sagas EXCEPT ![t] = failed]
       /\ transactions' = update_transaction(transactions, t,
                              [status |-> failed.status, error |-> "str(e)"])
       /\ summary' = [summary EXCEPT ![t] = Some(ErrorSummary(failed))]
       /\ pc' = [pc EXCEPT ![t] = "returned"]
       /\ UNCHANGED <<loop_i, completed_steps>>


\* What requests.request does with a request is the network's choice:
\*   the participant handles it and its response arrives          (Response)
\*   ... and the body of its 2xx response is not JSON             (Undecodable)
\*   a RequestException (connection error, timeout of 30 s); the
\*   participant has not acted on the request                     (TransportError)
\*   an exception that is not a RequestException                  (Unexpected)

\* lines 136-149
StepResponse(t) ==
    /\ pc[t] = "await_step"
    /\ LET req == Val(inflight[t])
           resp == RouteRegister(req.url, req.json, DB, nextId)
           step == sagas[t].steps[req.index + 1]
       IN /\ SetDB(resp.db)
          /\ nextId' = IF resp.status_code = 201 THEN nextId + 1 ELSE nextId
          /\ Conclude(t, "response", Some(resp.status_code))
          /\ IF StepSucceeded(resp.status_code)
             THEN StepReturnsTrue(t, MarkCompleted(step, resp.body))
             ELSE StepReturnsFalse(t, MarkFailed(step, HttpError(resp.status_code)))
    /\ UNCHANGED <<active_transactions, transactions>>

\* line 137 has run, response.json() of line 138 is about to raise
StepUndecodable(t) ==
    /\ pc[t] = "await_step"
    /\ LET req == Val(inflight[t])
           resp == RouteRegister(req.url, req.json, DB, nextId)
       IN /\ StepSucceeded(resp.status_code)
          /\ SetDB(resp.db)
          /\ nextId' = nextId + 1
          /\ Conclude(t, "undecodable", Some(resp.status_code))
          /\ sagas' = [sagas EXCEPT ![t].steps[req.index + 1].status = "completed"]
    /\ pc' = [pc EXCEPT ![t] = "json"]
    /\ UNCHANGED <<loop_i, completed_steps, summary, active_transactions, transactions>>

\* line 138 raises.  requests.exceptions.JSONDecodeError is a RequestException
\* (requests >= 2.27, wrapped = TRUE: lines 151-157); before that json()
\* raised a plain ValueError, which leaves _execute_step (lines 101-116).
JsonRaises(t, wrapped) ==
    /\ pc[t] = "json"
    /\ IF wrapped
       THEN /\ StepReturnsFalse(t, MarkFailed(sagas[t].steps[loop_i[t] + 1], "Request failed"))
            /\ UNCHANGED <<transactions, calls>>
       ELSE /\ ExceptionHandler(t, sagas[t])
            /\ calls' = [calls EXCEPT ![t][Len(calls[t])].net = "unexpected"]
    /\ UNCHANGED <<inflight, active_transactions, dbvars, nextId>>

\* mutant: a RequestException of the forward call is not caught in _execute_step
StepTransportErrorRaises(t) ==
    /\ pc[t] = "await_step"
    /\ Conclude(t, "transport_error", None)
    /\ ExceptionHandler(t, sagas[t])
    /\ UNCHANGED <<active_transactions, dbvars, nextId>>

\* lines 151-157
StepTransportError(t) ==
    /\ pc[t] = "await_step"
    /\ Conclude(t, "transport_error", None)
    /\ StepReturnsFalse(t, MarkFailed(sagas[t].steps[loop_i[t] + 1], "Request failed"))
    /\ UNCHANGED <<active_transactions, dbvars, transactions, nextId>>

StepUnexpected(t) ==
    /\ pc[t] = "await_step"
    /\ Conclude(t, "unexpected", None)
    /\ ExceptionHandler(t, sagas[t])
    /\ UNCHANGED <<active_transactions, dbvars, nextId>>

\* lines 82-99: the loop is over
SagaCompleted(t) ==
    /\ pc[t] = "loop"
    /\ loop_i[t] = Len(sagas[t].steps)
    /\ LET done == [sagas[t] EXCEPT !.status = "completed"]
       IN /\ sagas' = [sagas EXCEPT ![t] = done]
          /\ transactions' = update_transaction(transactions, t,
                                 [status |-> done.status, steps |-> to_dict(done).steps])
          /\ summary' = [summary EXCEPT ![t] = Some(SuccessSummary(done))]
    /\ pc' = [pc EXCEPT ![t] = "returned"]
    /\ UNCHANGED <<loop_i, completed_steps, inflight, active_transactions, dbvars, nextId, calls>>

----------------------------------------------------------------------------
(* _execute_rollback and _execute_rollback_step *)

\* lines 186-209: the sweep reaches a step that is compensated; its request is sent
RollbackStepCall(t) ==
    /\ pc[t] = "rollback"
    /\ completed_steps[t] # << >>
    /\ LET index == Head(completed_steps[t])
           step == sagas[t].steps[index + 1]
       IN /\ HasCompensation(step)
          /\ Issue(t, Request("rollback", index, Val(step.rollback_url).api, EmptyDict,
                              RollbackTarget(step)))
    /\ pc' = [pc EXCEPT ![t] = "await_rollback"]
    /\ UNCHANGED <<sagas, loop_i, completed_steps, summary, active_transactions, dbvars,
                   transactions, nextId>>

\* mutant: a step the sweep skips is marked compensated
RollbackStepSkippedMarksCompensated(t) ==
    /\ pc[t] = "rollback"
    /\ completed_steps[t] # << >>
    /\ ~HasCompensation(sagas[t].steps[Head(completed_steps[t]) + 1])
    /\ sagas' = [sagas EXCEPT ![t].steps[Head(completed_steps[t]) + 1].status = "compensated"]
    /\ completed_steps' = [completed_steps EXCEPT ![t] = Tail(@)]
    /\ UNCHANGED <<pc, loop_i, inflight, summary, active_transactions, dbvars,
                   transactions, nextId, calls>>

\* mutant: the sweep does not move past a step it skips
RollbackStepSkippedStaysPut(t) ==
    /\ pc[t] = "rollback"
    /\ completed_steps[t] # << >>
    /\ ~HasCompensation(sagas[t].steps[Head(completed_steps[t]) + 1])
    /\ UNCHANGED vars

\* lines 186-187: the sweep passes a step that has no rollback_url or no result
RollbackStepSkipped(t) ==
    /\ pc[t] = "rollback"
    /\ completed_steps[t] # << >>
    /\ ~HasCompensation(sagas[t].steps[Head(completed_steps[t]) + 1])
    /\ completed_steps' = [completed_steps EXCEPT ![t] = Tail(@)]
    /\ UNCHANGED <<sagas, pc, loop_i, inflight, summary, active_transactions, dbvars,
                   transactions, nextId, calls>>

\* _execute_rollback_step returned: the sweep goes on
RollbackStepReturns(t) ==
    /\ completed_steps' = [completed_steps EXCEPT ![t] = Tail(@)]
    /\ pc' = [pc EXCEPT ![t] = "rollback"]
    /\ UNCHANGED <<loop_i, summary, active_transactions, transactions, nextId>>

\* lines 211-215
RollbackResponse(t) ==
    /\ pc[t] = "await_rollback"
    /\ LET req == Val(inflight[t])
           resp == RouteRollback(req.url, req.target, DB)
       IN /\ SetDB(resp.db)
          /\ Conclude(t, "response", Some(resp.status_code))
          /\ sagas' = [sagas EXCEPT ![t].steps[req.index + 1] =
                          IF RollbackSucceeded(resp.status_code)
                          THEN MarkCompensated(@) ELSE @]
    /\ RollbackStepReturns(t)

\* mutant: a RequestException ends the sweep
RollbackTransportErrorEndsSweep(t) ==
    /\ pc[t] = "await_rollback"
    /\ Conclude(t, "transport_error", None)
    /\ completed_steps' = [completed_steps EXCEPT ![t] = << >>]
    /\ pc' = [pc EXCEPT ![t] = "rollback"]
    /\ UNCHANGED <<sagas, loop_i, summary, active_transactions, dbvars, transactions, nextId>>

\* mutant: a RequestException of a compensation call is not caught
RollbackTransportErrorRaises(t) ==
    /\ pc[t] = "await_rollback"
    /\ Conclude(t, "transport_error", None)
    /\ ExceptionHandler(t, sagas[t])
    /\ UNCHANGED <<active_transactions, dbvars, nextId>>

\* lines 217-218
RollbackTransportError(t) ==
    /\ pc[t] = "await_rollback"
    /\ Conclude(t, "transport_error", None)
    /\ RollbackStepReturns(t)
    /\ UNCHANGED <<sagas, dbvars>>

RollbackUnexpected(t) ==
    /\ pc[t] = "await_rollback"
    /\ Conclude(t, "unexpected", None)
    /\ ExceptionHandler(t, sagas[t])
    /\ UNCHANGED <<active_transactions, dbvars, nextId>>

\* mutant: the status is not set after the sweep
RollbackFinishedKeepsStatus(t) ==
    /\ pc[t] = "rollback"
    /\ completed_steps[t] = << >>
    /\ transactions' = update_transaction(transactions, t,
                           [status |-> sagas[t].status, steps |-> to_dict(sagas[t]).steps])
    /\ summary' = [summary EXCEPT ![t] =
                      Some(FailureSummary(sagas[t], sagas[t].steps[loop_i[t] + 1]))]
    /\ pc' = [pc EXCEPT ![t] = "returned"]
    /\ UNCHANGED <<sagas, loop_i, completed_steps, inflight, active_transactions, dbvars,
                   nextId, calls>>

\* lines 64-79: the sweep is over
RollbackFinished(t) ==
    /\ pc[t] = "rollback"
    /\ completed_steps[t] = << >>
    /\ LET done == [sagas[t] EXCEPT !.status = "compensated"]
       IN /\ sagas' = [sagas EXCEPT ![t] = done]
          /\ transactions' = update_transaction(transactions, t,
                                 [status |-> done.status, steps |-> to_dict(done).steps])
          /\ summary' = [summary EXCEPT ![t] =
                            Some(FailureSummary(done, done.steps[loop_i[t] + 1]))]
    /\ pc' = [pc EXCEPT ![t] = "returned"]
    /\ UNCHANGED <<loop_i, completed_steps, inflight, active_transactions, dbvars, nextId, calls>>

----------------------------------------------------------------------------
(* Inputs *)

\* the request bodies of the /execute and /demo endpoints, by their fail_at_step
EventData ==
    {EmptyDict} \cup
    {[fail_at_step |-> s] : s \in {"event", "event_details", "venue", "ticket", "no_such_step"}}

\* the steps create_event_management_saga builds
BuiltSteps == create_event_management_saga(EmptyDict, 0).steps

\* the steps other sagas are made of: the built steps, an event step without
\* a rollback_url, a venue step whose rollback_url names a placeholder that its
\* result does not have, and a details step whose own template sets event_id
\* (to 0, the id of no event: nextId starts at 1)
StepCatalogue ==
    {BuiltSteps[k] : k \in 1..Len(BuiltSteps)}
    \cup {[BuiltSteps[1] EXCEPT !.rollback_url = None]}
    \cup {[BuiltSteps[3] EXCEPT !.rollback_url = RollbackUrl("venue", "id")]}
    \cup {[BuiltSteps[2] EXCEPT !.payload = Put(@, "event_id", 0)]}

\* the sagas of other callers: up to MaxSteps catalogue steps in any order, and
\* the event-management saga followed by one more step
StepLists ==
    UNION {[1..n -> StepCatalogue] : n \in 0..MaxSteps}
    \cup {Append(BuiltSteps, step) : step \in StepCatalogue}

----------------------------------------------------------------------------
(* One execute_saga run from the state after construction *)

Init ==
    /\ sagas = EmptyDict
    /\ pc = EmptyDict
    /\ loop_i = EmptyDict
    /\ completed_steps = EmptyDict
    /\ inflight = EmptyDict
    /\ summary = EmptyDict
    /\ calls = EmptyDict
    /\ active_transactions = {}
    /\ events = EmptyDict
    /\ event_details = EmptyDict
    /\ venues = EmptyDict
    /\ tickets = EmptyDict
    /\ transactions = EmptyDict
    /\ nextId = 1
    /\ status_reply = None
    /\ lock = None

Next ==
    \/ /\ DOMAIN sagas = {}
       /\ \E event_data \in EventData : BuildEventManagementSaga(event_data) /\ UNCHANGED appvars
    \/ /\ DOMAIN sagas = {}
       /\ \E steps \in StepLists : BuildSaga(steps) /\ UNCHANGED appvars
    \/ \E t \in DOMAIN sagas : ExecuteSagaBegin(t) /\ UNCHANGED appvars
    \/ \E t \in DOMAIN sagas : ExecuteStepCall(t) /\ UNCHANGED appvars
    \/ \E t \in DOMAIN sagas : StepResponse(t) /\ UNCHANGED appvars
    \/ \E t \in DOMAIN sagas : StepUndecodable(t) /\ UNCHANGED appvars
    \/ \E t \in DOMAIN sagas : \E wrapped \in BOOLEAN : JsonRaises(t, wrapped) /\ UNCHANGED appvars
    \/ \E t \in DOMAIN sagas : StepTransportError(t) /\ UNCHANGED appvars
    \/ \E t \in DOMAIN sagas : StepUnexpected(t) /\ UNCHANGED appvars
    \/ \E t \in DOMAIN sagas : SagaCompleted(t) /\ UNCHANGED appvars
    \/ \E t \in DOMAIN sagas : RollbackStepCall(t) /\ UNCHANGED appvars
    \/ \E t \in DOMAIN sagas : RollbackStepSkipped(t) /\ UNCHANGED appvars
    \/ \E t \in DOMAIN sagas : RollbackResponse(t) /\ UNCHANGED appvars
    \/ \E t \in DOMAIN sagas : RollbackTransportError(t) /\ UNCHANGED appvars
    \/ \E t \in DOMAIN sagas : RollbackUnexpected(t) /\ UNCHANGED appvars
    \/ \E t \in DOMAIN sagas : RollbackFinished(t) /\ UNCHANGED appvars

Spec == Init /\ [][Next]_vars

\* execute_saga is one thread of control that is never cancelled: once the
\* transaction is constructed it is executed, and whatever step of
\* execute_saga can be taken is taken; requests.request returns or raises
\* (timeout=30), so the call in flight is concluded.
Execute(t) ==
    /\ \/ ExecuteSagaBegin(t)
       \/ ExecuteStepCall(t)
       \/ StepResponse(t)
       \/ StepUndecodable(t)
       \/ \E wrapped \in BOOLEAN : JsonRaises(t, wrapped)
       \/ StepTransportError(t)
       \/ StepUnexpected(t)
       \/ SagaCompleted(t)
       \/ RollbackStepCall(t)
       \/ RollbackStepSkipped(t)
       \/ RollbackResponse(t)
       \/ RollbackTransportError(t)
       \/ RollbackUnexpected(t)
       \/ RollbackFinished(t)
    /\ UNCHANGED appvars

LiveSpec == Spec /\ WF_vars(\E t \in DOMAIN sagas : Execute(t))

----------------------------------------------------------------------------
(* The application process (main.py): the Flask server handles requests     *)
(* concurrently, so executions of several sagas, status queries and          *)
(* DELETE /demo/clear-database interleave at the points where a handler      *)
(* waits for a remote call.                                                  *)

\* lines 220-230
get_transaction_status(transaction_id) ==
    IF transaction_id \in active_transactions
    THEN Some(to_dict(sagas[transaction_id]))
    ELSE get_transaction(transactions, transaction_id)

\* database.py lines 167-169: the records, as a set
list_transactions(txs) == {txs[k] : k \in DOMAIN txs}

\* mutant: the endpoint answers 200 with whatever get_transaction_status gave
get_saga_statusAlwaysOk(transaction_id) ==
    [transaction_id |-> transaction_id, status_code |-> 200,
     body |-> get_transaction_status(transaction_id)]

\* lines 257-271: the response of GET /api/saga/status/<transaction_id>
get_saga_status(transaction_id) ==
    LET status == get_transaction_status(transaction_id)
    IN IF IsSome(status) /\ Truthy(Val(status))
       THEN [transaction_id |-> transaction_id, status_code |-> 200, body |-> Val(status)]
       ELSE [transaction_id |-> transaction_id, status_code |-> 404,
             body |-> ErrorBody("Transaction not found")]

GetSagaStatus(transaction_id) ==
    /\ status_reply' = Some(get_saga_status(transaction_id))
    /\ UNCHANGED <<sagas, pc, loop_i, completed_steps, inflight, summary,
                   active_transactions, dbvars, transactions, nextId, calls, lock>>

\* mutant: the endpoint also empties orchestrator.active_transactions
ClearDatabaseClearsActive ==
    /\ events' = EmptyDict
    /\ event_details' = EmptyDict
    /\ venues' = EmptyDict
    /\ tickets' = EmptyDict
    /\ transactions' = EmptyDict
    /\ active_transactions' = {}
    /\ UNCHANGED <<sagas, pc, loop_i, completed_steps, inflight, summary,
                   nextId, calls, appvars>>

\* demo_endpoints.py lines 217-223: the five tables are emptied; db.lock is
\* not taken
ClearDatabase ==
    /\ events' = EmptyDict
    /\ event_details' = EmptyDict
    /\ venues' = EmptyDict
    /\ tickets' = EmptyDict
    /\ transactions' = EmptyDict
    /\ UNCHANGED <<sagas, pc, loop_i, completed_steps, inflight, summary,
                   active_transactions, nextId, calls, appvars>>

\* A handler constructs its transaction and enters execute_saga without a
\* remote call in between (lines 247-250, 32-46): the two are taken together,
\* no other request acts between them.  Another order of the uuid4 draws would
\* only rename the ids.
NoneCreated == \A u \in DOMAIN sagas : pc[u] # "created"

\* the body posted to /demo/simulate-failure for a failure at the first step
AppEventData == {[fail_at_step |-> "event"]}

\* the identifiers a client asks the status of: the transaction ids of the
\* summaries, the ids of the records of /api/saga/list, and an id that the
\* application never made (0: nextId starts at 1)
QueryIds == (DOMAIN sagas) \cup (DOMAIN transactions) \cup {0}

\* Sagas, status queries and clear-database requests in one process.  Of
\* execute_saga the actions are listed that a saga failing at its first step
\* can take.
AppNext ==
    \/ /\ Cardinality(DOMAIN sagas) < MaxSagas
       /\ NoneCreated
       /\ \E event_data \in AppEventData :
             BuildEventManagementSaga(event_data) /\ UNCHANGED appvars
    \/ \E t \in DOMAIN sagas : ExecuteSagaBegin(t) /\ UNCHANGED appvars
    \/ NoneCreated /\ \E t \in DOMAIN sagas : ExecuteStepCall(t) /\ UNCHANGED appvars
    \/ NoneCreated /\ \E t \in DOMAIN sagas : StepResponse(t) /\ UNCHANGED appvars
    \/ NoneCreated /\ \E t \in DOMAIN sagas : StepTransportError(t) /\ UNCHANGED appvars
    \/ NoneCreated /\ \E t \in DOMAIN sagas : StepUnexpected(t) /\ UNCHANGED appvars
    \/ NoneCreated /\ \E t \in DOMAIN sagas : RollbackFinished(t) /\ UNCHANGED appvars
    \/ NoneCreated /\ \E transaction_id \in QueryIds : GetSagaStatus(transaction_id)
    \/ NoneCreated /\ ClearDatabase

AppSpec == Init /\ [][AppNext]_vars

\* the bodies posted for the sagas that run side by side: a failure at the
\* first step or at the second
ConcurrentEventData == {[fail_at_step |-> s] : s \in {"event", "event_details"}}

\* Several execute_saga runs side by side, interleaved at their remote calls;
\* a call is answered by its participant or ends in a RequestException.
ConcurrentNext ==
    \/ /\ Cardinality(DOMAIN sagas) < MaxSagas
       /\ NoneCreated
       /\ \E event_data \in ConcurrentEventData :
             BuildEventManagementSaga(event_data) /\ UNCHANGED appvars
    \/ \E t \in DOMAIN sagas : ExecuteSagaBegin(t) /\ UNCHANGED appvars
    \/ NoneCreated /\ \E t \in DOMAIN sagas : ExecuteStepCall(t) /\ UNCHANGED appvars
    \/ NoneCreated /\ \E t \in DOMAIN sagas : StepResponse(t) /\ UNCHANGED appvars
    \/ NoneCreated /\ \E t \in DOMAIN sagas : StepTransportError(t) /\ UNCHANGED appvars
    \/ NoneCreated /\ \E t \in DOMAIN sagas : RollbackStepCall(t) /\ UNCHANGED appvars
    \/ NoneCreated /\ \E t \in DOMAIN sagas : RollbackResponse(t) /\ UNCHANGED appvars
    \/ NoneCreated /\ \E t \in DOMAIN sagas : RollbackTransportError(t) /\ UNCHANGED appvars
    \/ NoneCreated /\ \E t \in DOMAIN sagas : RollbackFinished(t) /\ UNCHANGED appvars

ConcurrentSpec == Init /\ [][ConcurrentNext]_vars

----------------------------------------------------------------------------
(* database.py lines 142-169 under concurrent callers.  A Registry          *)
(* operation is two steps: `with self.lock` is entered (and, for             *)
(* update_transaction, the membership test of line 157 is made), then the    *)
(* rest of the body runs and the lock is released.  Other threads act in     *)
(* between; the ones that want db.lock wait.                                 *)

RegistryCall(op, transaction_id, found) ==
    [op |-> op, transaction_id |-> transaction_id, found |-> found]

RegistryReply(op, transaction_id, result) ==
    [op |-> op, transaction_id |-> transaction_id, result |-> result]

\* `with self.lock`: blocks while another thread holds the lock
Acquire(call) ==
    /\ lock = None
    /\ lock' = Some(call)

RegistryFrame ==
    UNCHANGED <<sagas, pc, loop_i, completed_steps, inflight, summary,
                active_transactions, dbvars, calls>>

\* what callers pass to the Registry
RegistryData == {[status |-> "pending", steps |-> <<"Event Registration">>]}
RegistryUpdates == {[status |-> "completed"], [status |-> "failed", error |-> "str(e)"]}
RegistryIds == (DOMAIN transactions) \cup {0}

\* line 143
CreateTransactionEnter ==
    /\ nextId <= MaxSagas
    /\ Acquire(RegistryCall("create_transaction", 0, FALSE))
    /\ UNCHANGED <<transactions, nextId, status_reply>>
    /\ RegistryFrame

\* lines 144-153
CreateTransactionExit(transaction_data) ==
    /\ IsSome(lock)
    /\ Val(lock).op = "create_transaction"
    /\ transactions' = create_transaction(transactions, nextId, transaction_data)
    /\ nextId' = nextId + 1
    /\ status_reply' = Some(RegistryReply("create_transaction", nextId, Some(nextId)))
    /\ lock' = None
    /\ RegistryFrame

\* lines 156-157
UpdateTransactionEnter(transaction_id) ==
    /\ Acquire(RegistryCall("update_transaction", transaction_id,
                            transaction_id \in DOMAIN transactions))
    /\ UNCHANGED <<transactions, nextId, status_reply>>
    /\ RegistryFrame

\* lines 158-161: self.transactions[transaction_id] raises KeyError when the
\* record the test of line 157 saw is gone
UpdateTransactionExit(updates) ==
    /\ IsSome(lock)
    /\ Val(lock).op = "update_transaction"
    /\ LET transaction_id == Val(lock).transaction_id
       IN IF ~Val(lock).found
          THEN /\ status_reply' = Some(RegistryReply("update_transaction", transaction_id, Some(FALSE)))
               /\ UNCHANGED transactions
          ELSE IF transaction_id \in DOMAIN transactions
          THEN /\ transactions' = update_transaction(transactions, transaction_id, updates)
               /\ status_reply' = Some(RegistryReply("update_transaction", transaction_id, Some(TRUE)))
          ELSE /\ status_reply' = Some(RegistryReply("update_transaction", transaction_id, "KeyError"))
               /\ UNCHANGED transactions
    /\ lock' = None
    /\ UNCHANGED nextId
    /\ RegistryFrame

\* line 164
GetTransactionEnter(transaction_id) ==
    /\ Acquire(RegistryCall("get_transaction", transaction_id, FALSE))
    /\ UNCHANGED <<transactions, nextId, status_reply>>
    /\ RegistryFrame

\* line 165
GetTransactionExit ==
    /\ IsSome(lock)
    /\ Val(lock).op = "get_transaction"
    /\ status_reply' = Some(RegistryReply("get_transaction", Val(lock).transaction_id,
                                          get_transaction(transactions, Val(lock).transaction_id)))
    /\ lock' = None
    /\ UNCHANGED <<transactions, nextId>>
    /\ RegistryFrame

\* line 168
ListTransactionsEnter ==
    /\ Acquire(RegistryCall("list_transactions", 0, FALSE))
    /\ UNCHANGED <<transactions, nextId, status_reply>>
    /\ RegistryFrame

\* line 169
ListTransactionsExit ==
    /\ IsSome(lock)
    /\ Val(lock).op = "list_transactions"
    /\ status_reply' = Some(RegistryReply("list_transactions", 0, list_transactions(transactions)))
    /\ lock' = None
    /\ UNCHANGED <<transactions, nextId>>
    /\ RegistryFrame

\* Threads calling the Registry operations, and DELETE /demo/clear-database
RegistryNext ==
    \/ CreateTransactionEnter
    \/ \E transaction_data \in RegistryData : CreateTransactionExit(transaction_data)
    \/ \E transaction_id \in RegistryIds : UpdateTransactionEnter(transaction_id)
    \/ \E updates \in RegistryUpdates : UpdateTransactionExit(updates)
    \/ \E transaction_id \in RegistryIds : GetTransactionEnter(transaction_id)
    \/ GetTransactionExit
    \/ ListTransactionsEnter
    \/ ListTransactionsExit
    \/ ClearDatabase

RegistrySpec == Init /\ [][RegistryNext]_vars

----------------------------------------------------------------------------
(* Vocabulary of the properties.  They read the history of remote calls     *)
(* (calls) and do not use the orchestrator's own classification operators.  *)

Returned(t) == pc[t] = "returned"
NumSteps(t) == Len(sagas[t].steps)
StepAt(t, i) == sagas[t].steps[i + 1]

\* positions in calls[t] of the calls of one kind for step i
CallsOf(t, op, i) ==
    {j \in 1..Len(calls[t]) : calls[t][j].req.op = op /\ calls[t][j].req.index = i}
CallsOfKind(t, op) == {j \in 1..Len(calls[t]) : calls[t][j].req.op = op}

\* a forward call that came back with 200/201 and a JSON body
ForwardSuccess(c) ==
    c.req.op = "forward" /\ c.net = "response" /\ Val(c.status_code) \in {200, 201}
\* a forward call that came back with another status code, or not at all
ForwardFailure(c) ==
    /\ c.req.op = "forward"
    /\ \/ c.net = "transport_error"
       \/ c.net = "response" /\ Val(c.status_code) \notin {200, 201}
\* a compensation call that came back with 200/204
RollbackSuccess(c) ==
    c.req.op = "rollback" /\ c.net = "response" /\ Val(c.status_code) \in {200, 204}

StepSucceededAt(t, i) == \E j \in CallsOf(t, "forward", i) : ForwardSuccess(calls[t][j])
StepFailedAt(t, i) == \E j \in CallsOf(t, "forward", i) : ForwardFailure(calls[t][j])
CompensatedAt(t, i) == \E j \in CallsOf(t, "rollback", i) : RollbackSuccess(calls[t][j])
NoUnexpected(t) == \A j \in 1..Len(calls[t]) : calls[t][j].net \notin {"unexpected", "undecodable"}

----------------------------------------------------------------------------
(* C1 *)

\* C1: when every step's forward call came back with a success response
\* (200/201 with a JSON body) and execute_saga has returned, the transaction
\* and the returned summary have status completed and every step has status
\* completed.
C1_AllSucceedCompleted ==
    \A t \in DOMAIN sagas :
        (Returned(t) /\ \A i \in 0..(NumSteps(t) - 1) : StepSucceededAt(t, i))
        => /\ sagas[t].status = "completed"
           /\ Val(summary[t]).status = "completed"
           /\ \A i \in 0..(NumSteps(t) - 1) : StepAt(t, i).status = "completed"

C1_Witness ==
    \E t \in DOMAIN sagas :
        /\ Returned(t)
        /\ NumSteps(t) >= 4
        /\ \A i \in 0..(NumSteps(t) - 1) : StepSucceededAt(t, i)

----------------------------------------------------------------------------
(* C2 *)

\* the step whose forward call failed is i, and every step before it has a
\* rollback_url; execute_saga has returned and no call ended in an exception
\* that is not a RequestException
C2_Case(t, i) ==
    /\ Returned(t)
    /\ StepFailedAt(t, i)
    /\ NoUnexpected(t)
    /\ \A j \in 0..(i - 1) : IsSome(StepAt(t, j).rollback_url)

\* C2 as stated: after step i failed, the transaction is compensated, step i
\* is failed and every step before i is compensated, whatever the
\* compensation calls returned.
C2_AllCompensated ==
    \A t \in DOMAIN sagas : \A i \in 0..(NumSteps(t) - 1) :
        C2_Case(t, i)
        => /\ sagas[t].status = "compensated"
           /\ StepAt(t, i).status = "failed"
           /\ \A j \in 0..(i - 1) : StepAt(t, j).status = "compensated"

\* C2 amended: after step i failed, the transaction is compensated, step i is
\* failed, and a step before i is compensated exactly when its compensation
\* call came back with 200/204; otherwise it still has status completed.
C2_CompensatedWhereRollbackSucceeded ==
    \A t \in DOMAIN sagas : \A i \in 0..(NumSteps(t) - 1) :
        C2_Case(t, i)
        => /\ sagas[t].status = "compensated"
           /\ StepAt(t, i).status = "failed"
           /\ \A j \in 0..(i - 1) :
                StepAt(t, j).status =
                    IF CompensatedAt(t, j) THEN "compensated" ELSE "completed"

C2_Witness ==
    \E t \in DOMAIN sagas : \E i \in 2..(NumSteps(t) - 1) :
        /\ C2_Case(t, i)
        /\ \E j \in 0..(i - 1) : CompensatedAt(t, j)
        /\ \E j \in 0..(i - 1) : ~CompensatedAt(t, j)

----------------------------------------------------------------------------
(* C3 *)

\* C3: once the forward call of step i has ended in anything but a success
\* response, no forward call is issued for a later step, and every later step
\* has status pending (in every state from then on, so also when
\* execute_saga returns).
C3_FailureHaltsLoop ==
    \A t \in DOMAIN sagas : \A j \in CallsOfKind(t, "forward") :
        (calls[t][j].net # "pending" /\ ~ForwardSuccess(calls[t][j]))
        => /\ \A k \in CallsOfKind(t, "forward") : k <= j
           /\ \A i \in (calls[t][j].req.index + 1)..(NumSteps(t) - 1) :
                StepAt(t, i).status = "pending"

C3_Witness ==
    \E t \in DOMAIN sagas : \E i \in 0..(NumSteps(t) - 2) :
        /\ Returned(t)
        /\ StepFailedAt(t, i)
        /\ i >= 1

----------------------------------------------------------------------------
(* C4 *)

\* position in calls[t] of the success response of step i
CompletionPosition(t, i) ==
    CHOOSE j \in CallsOf(t, "forward", i) : ForwardSuccess(calls[t][j])

\* C4: compensation calls go to steps that completed, after every forward
\* call, in the reverse of the order in which the steps completed; and a call
\* is issued only when the outcome of every earlier call is known.
C4_ReverseOrder ==
    \A t \in DOMAIN sagas :
        /\ \A p \in CallsOfKind(t, "rollback") :
            /\ StepSucceededAt(t, calls[t][p].req.index)
            /\ \A f \in CallsOfKind(t, "forward") : f < p
            /\ \A q \in CallsOfKind(t, "rollback") :
                p < q => CompletionPosition(t, calls[t][p].req.index)
                            > CompletionPosition(t, calls[t][q].req.index)
        /\ \A j \in 1..(Len(calls[t]) - 1) : calls[t][j].net # "pending"

C4_Witness ==
    \E t \in DOMAIN sagas :
        /\ Returned(t)
        /\ Cardinality(CallsOfKind(t, "rollback")) >= 3


----------------------------------------------------------------------------
(* C5 *)

\* the table a register API writes to, and the key of the new id in its response
TableOf(api) ==
    CASE api = "event" -> events
      [] api = "event-details" -> event_details
      [] api = "venue" -> venues
      [] api = "ticket" -> tickets
CreatedKey(api) ==
    CASE api = "event" -> "event_id"
      [] api = "event-details" -> "details_id"
      [] api = "venue" -> "venue_id"
      [] api = "ticket" -> "ticket_id"

\* the resource step i created is still in its table
ResourceRemains(t, i) ==
    /\ StepSucceededAt(t, i)
    /\ IsSome(StepAt(t, i).result)
    /\ Val(StepAt(t, i).result)[CreatedKey(StepAt(t, i).url)] \in DOMAIN TableOf(StepAt(t, i).url)

\* C5: when execute_saga has returned a summary with status compensated and
\* rollback_completed true (for a saga each of whose steps has a
\* rollback_url), no resource created by a step of the saga remains in the
\* participants' tables.
C5_NoPartialState ==
    \A t \in DOMAIN sagas :
        ( /\ Returned(t)
          /\ Val(summary[t]).status = "compensated"
          /\ Get(Val(summary[t]), "rollback_completed", FALSE)
          /\ \A i \in 0..(NumSteps(t) - 1) : IsSome(StepAt(t, i).rollback_url) )
        => \A i \in 0..(NumSteps(t) - 1) : ~ResourceRemains(t, i)

----------------------------------------------------------------------------
(* C6 *)

\* step i completed, has a rollback_url and a result that is not empty
Compensable(t, i) ==
    /\ StepSucceededAt(t, i)
    /\ IsSome(StepAt(t, i).rollback_url)
    /\ IsSome(StepAt(t, i).result)
    /\ DOMAIN Val(StepAt(t, i).result) # {}

----------------------------------------------------------------------------
(* C7 *)

\* C7: after execute_saga has returned, db.get_transaction(transaction_id)
\* yields a record, and its status is the final status of the summary.
C7_RegistryHasFinalState ==
    \A t \in DOMAIN sagas :
        Returned(t)
        => /\ IsSome(get_transaction(transactions, t))
           /\ Val(get_transaction(transactions, t)).status = Val(summary[t]).status

----------------------------------------------------------------------------
(* C8 *)

StepNames(t) == [k \in 1..NumSteps(t) |-> sagas[t].steps[k].name]

\* execute_saga has begun and has not yet sent the request of its first step
BeforeFirstStep(t) == pc[t] = "loop" /\ calls[t] = << >>

\* C8 as stated: before the first step is invoked the Registry holds a record
\* with the step names and the metadata of the transaction whose status is
\* in_progress.
C8_RegisteredInProgress ==
    \A t \in DOMAIN sagas :
        BeforeFirstStep(t)
        => \E k \in DOMAIN transactions :
              /\ transactions[k].status = "in_progress"
              /\ transactions[k].steps = StepNames(t)
              /\ transactions[k].metadata = sagas[t].metadata

\* C8 amended: from the start of execute_saga on (so before the first step is
\* invoked) the Registry holds one record with the step names and the
\* metadata of the transaction; it is stored under a key of its own, not the
\* transaction_id, and its status is pending, the status the transaction had
\* when the record was written.
C8_RegisteredPending ==
    \A t \in DOMAIN sagas :
        pc[t] # "created"
        => /\ t \notin DOMAIN transactions
           /\ Cardinality(DOMAIN transactions) = 1
           /\ \A k \in DOMAIN transactions :
                /\ transactions[k].status = "pending"
                /\ transactions[k].steps = StepNames(t)
                /\ transactions[k].metadata = sagas[t].metadata

C8_Witness ==
    \E t \in DOMAIN sagas :
        /\ BeforeFirstStep(t)
        /\ NumSteps(t) >= 4
        /\ sagas[t].status = "in_progress"
        /\ DOMAIN sagas[t].metadata # {}

----------------------------------------------------------------------------
(* C9 and C10 *)

\* the steps before step i whose result has the key
Producers(t, i, key) ==
    {j \in 0..(i - 1) : /\ IsSome(StepAt(t, j).result)
                        /\ key \in DOMAIN Val(StepAt(t, j).result)}
\* the value of the key in the result of the last of them
Produced(t, i, key) ==
    LET last == CHOOSE j \in Producers(t, i, key) : \A k \in Producers(t, i, key) : k <= j
    IN Val(StepAt(t, last).result)[key]

\* C9 as stated: the payload sent for a step has every key ending in "_id"
\* of the results of the steps completed before it (ticket_id too), with the
\* value of the result (of the last such step).
C9_EveryIdKeyPropagated ==
    \A t \in DOMAIN sagas : \A p \in CallsOfKind(t, "forward") : \A key \in IdKeys :
        LET i == calls[t][p].req.index
            json == calls[t][p].req.json
        IN Producers(t, i, key) # {}
           => key \in DOMAIN json /\ json[key] = Produced(t, i, key)

\* C9 amended: the payload sent for a step has the keys event_id, venue_id
\* and details_id of the results of the steps completed before it, each with
\* the value of the last such result; any other key ending in "_id"
\* (ticket_id) is in the payload only if the step's own template has it.
C9_ThreeKeysPropagated ==
    \A t \in DOMAIN sagas : \A p \in CallsOfKind(t, "forward") : \A key \in IdKeys :
        LET i == calls[t][p].req.index
            json == calls[t][p].req.json
        IN IF key \in {"event_id", "venue_id", "details_id"}
           THEN Producers(t, i, key) # {}
                => key \in DOMAIN json /\ json[key] = Produced(t, i, key)
           ELSE key \in DOMAIN json <=> key \in DOMAIN StepAt(t, i).payload

\* a step is invoked after a step whose result has ticket_id
C9_Witness ==
    \E t \in DOMAIN sagas : \E p \in CallsOfKind(t, "forward") :
        /\ Producers(t, calls[t][p].req.index, "ticket_id") # {}
        /\ Producers(t, calls[t][p].req.index, "venue_id") # {}
        /\ "ticket_id" \notin DOMAIN calls[t][p].req.json

\* C10 as stated: the payload sent for a step has the event_id of the result
\* of a step completed before it, unless the step's own template has
\* event_id, and then the template's value is sent.
C10_TemplateOverrides ==
    \A t \in DOMAIN sagas : \A p \in CallsOfKind(t, "forward") :
        LET i == calls[t][p].req.index
            json == calls[t][p].req.json
            template == StepAt(t, i).payload
        IN IF "event_id" \in DOMAIN template
           THEN json["event_id"] = template["event_id"]
           ELSE Producers(t, i, "event_id") # {}
                => "event_id" \in DOMAIN json /\ json["event_id"] = Produced(t, i, "event_id")

\* C10 amended: the payload sent for a step has the event_id of the result of
\* the last step completed before it that has one, also when the step's own
\* template has event_id (the result's value replaces it); the template's
\* value is sent only when no such step completed before.
C10_ResultOverridesTemplate ==
    \A t \in DOMAIN sagas : \A p \in CallsOfKind(t, "forward") :
        LET i == calls[t][p].req.index
            json == calls[t][p].req.json
            template == StepAt(t, i).payload
        IN /\ Producers(t, i, "event_id") # {}
              => "event_id" \in DOMAIN json /\ json["event_id"] = Produced(t, i, "event_id")
           /\ (Producers(t, i, "event_id") = {} /\ "event_id" \in DOMAIN template)
              => "event_id" \in DOMAIN json /\ json["event_id"] = template["event_id"]

\* a step whose template has event_id is invoked after an event was registered
C10_Witness ==
    \E t \in DOMAIN sagas : \E p \in CallsOfKind(t, "forward") :
        /\ "event_id" \in DOMAIN StepAt(t, calls[t][p].req.index).payload
        /\ Producers(t, calls[t][p].req.index, "event_id") # {}
        /\ calls[t][p].net = "response"

----------------------------------------------------------------------------
(* C11 *)

TerminalStatuses == {"completed", "compensated", "failed"}

\* C11: a transaction constructed with all its steps pending is executed to
\* the end: execute_saga eventually returns, whatever the remote calls
\* return; and whenever it has returned, the status of the transaction and of
\* the summary is completed, compensated or failed.
C11_ReturnsTerminal ==
    /\ (\E t \in DOMAIN sagas : pc[t] = "created")
         ~> (\A t \in DOMAIN sagas : Returned(t))
    /\ [](\A t \in DOMAIN sagas :
            Returned(t) => /\ sagas[t].status \in TerminalStatuses
                           /\ IsSome(summary[t])
                           /\ Val(summary[t]).status = sagas[t].status)

\* a saga of four or more steps, each of which was invoked, has returned
\* after a compensation call ended in a RequestException
C11_Witness ==
    \E t \in DOMAIN sagas :
        /\ Returned(t)
        /\ NumSteps(t) >= 4
        /\ \A k \in 1..NumSteps(t) : sagas[t].steps[k].status # "pending"
        /\ \E p \in CallsOfKind(t, "rollback") : calls[t][p].net = "transport_error"
----------------------------------------------------------------------------
(* C12 and C13 *)

\* a call of the execution raised an exception that is not a RequestException
UnexpectedRaised(t) == \E j \in 1..Len(calls[t]) : calls[t][j].net = "unexpected"

\* an error string is on a step of the transaction or on its Registry record
ErrorRecorded(t) ==
    \/ \E i \in 0..(NumSteps(t) - 1) : IsSome(StepAt(t, i).error)
    \/ /\ IsSome(get_transaction(transactions, t))
       /\ "error" \in DOMAIN Val(get_transaction(transactions, t))

\* C12: whatever the forward and compensation calls did, execute_saga has
\* returned a summary with success, transaction_id and status; the error of a
\* failed forward call is on its step, and the error of an unexpected
\* exception is on a step or on the Registry record of the transaction.
C12_SummaryAndErrorRecorded ==
    \A t \in DOMAIN sagas :
        Returned(t)
        => /\ IsSome(summary[t])
           /\ {"success", "transaction_id", "status"} \subseteq DOMAIN Val(summary[t])
           /\ Val(summary[t]).transaction_id = t
           /\ \A i \in 0..(NumSteps(t) - 1) : StepFailedAt(t, i) => IsSome(StepAt(t, i).error)
           /\ UnexpectedRaised(t) => ErrorRecorded(t)

\* C13 as stated: after an unexpected exception the transaction has status
\* failed and no compensation call was issued at any point of the execution.
C13_NoCompensationAtAll ==
    \A t \in DOMAIN sagas :
        UnexpectedRaised(t)
        => /\ sagas[t].status = "failed"
           /\ CallsOfKind(t, "rollback") = {}

\* C13 amended: an unexpected exception makes execute_saga return with status
\* failed at once: the call that raised it is the last call of the
\* execution.  So when a forward call raised it, no compensation call is
\* issued at all; when a compensation call of the sweep raised it, the
\* compensation calls issued before it stand and none is issued after it.
C13_FailedNoFurtherCompensation ==
    \A t \in DOMAIN sagas :
        UnexpectedRaised(t)
        => /\ Returned(t)
           /\ sagas[t].status = "failed"
           /\ Val(summary[t]).status = "failed"
           /\ calls[t][Len(calls[t])].net = "unexpected"
           /\ calls[t][Len(calls[t])].req.op = "forward" => CallsOfKind(t, "rollback") = {}

\* the exception was raised in the sweep, after a step had been compensated
C13_Witness ==
    \E t \in DOMAIN sagas :
        /\ UnexpectedRaised(t)
        /\ calls[t][Len(calls[t])].req.op = "rollback"
        /\ \E i \in 0..(NumSteps(t) - 1) :
              CompensatedAt(t, i) /\ StepAt(t, i).status = "compensated"
----------------------------------------------------------------------------
(* C14 and C15 *)

\* the steps the compensation calls of the execution went to, in call order
RollbackIndexes(t) ==
    LET rollbacks == SelectSeq(calls[t], LAMBDA c : c.req.op = "rollback")
    IN [k \in 1..Len(rollbacks) |-> rollbacks[k].req.index]

\* the steps before step i that completed with a rollback_url and a result,
\* last first
ExpectedSweep(t, i) ==
    Reverse(SelectSeq([k \in 1..i |-> k - 1], LAMBDA j : Compensable(t, j)))

\* the forward call of step i ended in a RequestException
TransportFailedAt(t, i) ==
    \E j \in CallsOf(t, "forward", i) : calls[t][j].net = "transport_error"

\* C14: when the forward call of step i has failed, what the orchestrator did
\* is the same for a RequestException as for a failure response: step i is
\* failed, the compensation calls went to the completed steps before i that
\* have a compensation, last first, and the transaction is compensated.  The
\* two differ in the error string of the step only ("Request failed ..." for
\* the exception).
C14_SameBehaviour ==
    \A t \in DOMAIN sagas : \A i \in 0..(NumSteps(t) - 1) :
        (Returned(t) /\ NoUnexpected(t) /\ StepFailedAt(t, i))
        => /\ StepAt(t, i).status = "failed"
           /\ RollbackIndexes(t) = ExpectedSweep(t, i)
           /\ sagas[t].status = "compensated"
           /\ IsSome(StepAt(t, i).error)
           /\ Val(StepAt(t, i).error) = "Request failed" <=> TransportFailedAt(t, i)

\* the forward call of the fourth step or a later one ended in a
\* RequestException and the sweep went over three steps or more
C14_Witness ==
    \E t \in DOMAIN sagas : \E i \in 3..(NumSteps(t) - 1) :
        /\ Returned(t)
        /\ NoUnexpected(t)
        /\ TransportFailedAt(t, i)
        /\ Len(RollbackIndexes(t)) >= 3

\* a compensation call that did not come back with 200/204
RollbackFailure(c) == c.req.op = "rollback" /\ c.net # "pending" /\ ~RollbackSuccess(c)

\* C15: after a step failure the transaction ends in compensated, and the
\* summary says compensated with rollback_completed true, whether all, some
\* or none of the compensation calls came back with 200/204.
C15_FailedCompensationKeepsStatus ==
    \A t \in DOMAIN sagas :
        (Returned(t) /\ NoUnexpected(t) /\ \E i \in 0..(NumSteps(t) - 1) : StepFailedAt(t, i))
        => /\ sagas[t].status = "compensated"
           /\ Val(summary[t]).status = "compensated"
           /\ Val(summary[t]).success = FALSE

\* every compensation call of a sweep failed, one by a response that is not
\* 200/204 and one by a RequestException
C15_Witness ==
    \E t \in DOMAIN sagas :
        /\ Returned(t)
        /\ NoUnexpected(t)
        /\ Cardinality(CallsOfKind(t, "rollback")) >= 2
        /\ \A p \in CallsOfKind(t, "rollback") : RollbackFailure(calls[t][p])
        /\ \E p \in CallsOfKind(t, "rollback") : calls[t][p].net = "response"
        /\ \E p \in CallsOfKind(t, "rollback") : calls[t][p].net = "transport_error"
----------------------------------------------------------------------------
(* C16, C17 and C18 *)

\* the saga of create_event_management_saga
EventManagementSaga(t) == sagas[t].name = "Event Management Saga"
FailAtStep(t) == Get(sagas[t].metadata, "fail_at_step", "None")

\* the number of steps whose status is completed
CompletedCount(t) ==
    Cardinality({i \in 0..(NumSteps(t) - 1) : StepAt(t, i).status = "completed"})

\* C16: the summary has success true exactly when the final status is
\* completed, and then completed_steps is the number of steps, all of which
\* are completed; for the event-management saga whose four participant calls
\* all succeeded the summary is success true, status completed,
\* completed_steps 4.
C16_SuccessSummary ==
    \A t \in DOMAIN sagas :
        Returned(t)
        => LET s == Val(summary[t])
           IN /\ s.success <=> s.status = "completed"
              /\ s.success <=> sagas[t].status = "completed"
              /\ s.success
                 => /\ "completed_steps" \in DOMAIN s
                    /\ s.completed_steps = NumSteps(t)
                    /\ s.completed_steps = CompletedCount(t)
              /\ ( /\ EventManagementSaga(t)
                   /\ \A i \in 0..(NumSteps(t) - 1) : StepSucceededAt(t, i) )
                 => s.success /\ s.status = "completed" /\ s.completed_steps = 4

\* the event-management saga without a failure flag has returned after four
\* successful calls
C16_Witness ==
    \E t \in DOMAIN sagas :
        /\ Returned(t)
        /\ EventManagementSaga(t)
        /\ FailAtStep(t) = "None"
        /\ Val(summary[t]).success
        /\ Cardinality(DOMAIN tickets) = 1

\* the forward call of step i came back with a response
RespondedAt(t, i) == \E j \in CallsOf(t, "forward", i) : calls[t][j].net = "response"

\* C17: a failure summary names the step whose invocation failed (the first
\* and only one), with success false, status compensated and
\* rollback_completed true.  For the event-management saga flagged to fail at
\* event_details, with the event registered and the details call answered,
\* the answer is a failure, failed_step is "Event Details Registration", and
\* the one compensation call of the execution is the delete of the event.
C17_FailureSummary ==
    \A t \in DOMAIN sagas :
        (Returned(t) /\ NoUnexpected(t))
        => /\ \A i \in 0..(NumSteps(t) - 1) :
                StepFailedAt(t, i)
                => /\ Val(summary[t]) =
                        [success |-> FALSE, transaction_id |-> t, status |-> "compensated",
                         message |-> "Saga failed at step",
                         failed_step |-> StepAt(t, i).name, rollback_completed |-> TRUE]
                   /\ \A j \in 0..(NumSteps(t) - 1) : StepFailedAt(t, j) => j = i
           /\ ( /\ EventManagementSaga(t)
                /\ FailAtStep(t) = "event_details"
                /\ StepSucceededAt(t, 0)
                /\ RespondedAt(t, 1) )
              => /\ StepFailedAt(t, 1)
                 /\ Val(summary[t]).failed_step = "Event Details Registration"
                 /\ Val(summary[t]).status = "compensated"
                 /\ Cardinality(CallsOf(t, "rollback", 0)) = 1
                 /\ CallsOfKind(t, "rollback") = CallsOf(t, "rollback", 0)
                 /\ \A p \in CallsOf(t, "rollback", 0) :
                        /\ calls[t][p].req.url = "event"
                        /\ calls[t][p].req.target = Some(Val(StepAt(t, 0).result).event_id)

\* the flagged saga has returned and the delete of its event was answered 200
C17_Witness ==
    \E t \in DOMAIN sagas :
        /\ Returned(t)
        /\ EventManagementSaga(t)
        /\ FailAtStep(t) = "event_details"
        /\ StepSucceededAt(t, 0)
        /\ RespondedAt(t, 1)
        /\ CompensatedAt(t, 0)
        /\ DOMAIN events = {}

\* C18: when the forward call of the first step has failed, no compensation
\* call is ever issued, the steps after the first stay pending, and
\* execute_saga returns with the transaction compensated.
C18_FirstStepFailure ==
    \A t \in DOMAIN sagas :
        (NumSteps(t) >= 1 /\ StepFailedAt(t, 0))
        => /\ CallsOfKind(t, "rollback") = {}
           /\ Len(calls[t]) = 1
           /\ StepAt(t, 0).status = "failed"
           /\ \A i \in 1..(NumSteps(t) - 1) : StepAt(t, i).status = "pending"
           /\ Returned(t) => /\ sagas[t].status = "compensated"
                             /\ Val(summary[t]).status = "compensated"

\* the event-management saga flagged to fail at its event step has returned
C18_Witness ==
    \E t \in DOMAIN sagas :
        /\ Returned(t)
        /\ EventManagementSaga(t)
        /\ FailAtStep(t) = "event"
        /\ RespondedAt(t, 0)
        /\ StepFailedAt(t, 0)
----------------------------------------------------------------------------
(* C19 and C20 *)

\* the changes of a step's status the state machine of the steps has
StepTransition(from, to, transaction_status) ==
    \/ from = "pending" /\ to = "in_progress"
    \/ from = "in_progress" /\ to = "completed"
    \/ from = "in_progress" /\ to = "failed"
    \/ from = "completed" /\ to = "compensated" /\ transaction_status = "compensating"

\* C19: in every step of every execution, a step's status stays as it is or
\* changes from pending to in_progress, from in_progress to completed or to
\* failed, or (while the transaction is compensating) from completed to
\* compensated; also when a 2xx response has a body that is not JSON.
C19_StepTransitions ==
    [][\A t \in (DOMAIN sagas) \cap (DOMAIN sagas') : \A k \in 1..Len(sagas[t].steps) :
          \/ sagas'[t].steps[k].status = sagas[t].steps[k].status
          \/ StepTransition(sagas[t].steps[k].status, sagas'[t].steps[k].status,
                            sagas[t].status)]_vars

\* the changes of a transaction's status the state machine of the
\* transactions has
TransactionTransition(from, to) ==
    \/ from = "pending" /\ to = "in_progress"
    \/ from = "in_progress" /\ to = "completed"
    \/ from = "in_progress" /\ to = "compensating"
    \/ from = "compensating" /\ to = "compensated"
    \/ from \notin TerminalStatuses /\ to = "failed"

\* C20: in every step of every execution, a transaction's status stays as it
\* is or changes from pending to in_progress, from in_progress to completed
\* or to compensating, from compensating to compensated, or from a status
\* that is not terminal to failed.  So a terminal status never changes and
\* pending and in_progress are never entered again.
C20_TransactionTransitions ==
    [][\A t \in (DOMAIN sagas) \cap (DOMAIN sagas') :
          \/ sagas'[t].status = sagas[t].status
          \/ TransactionTransition(sagas[t].status, sagas'[t].status)]_vars

\* a transaction went from compensating to failed: the sweep of a saga of
\* four or more steps was left by an exception
C20_Witness ==
    \E t \in DOMAIN sagas :
        /\ NumSteps(t) >= 4
        /\ sagas[t].status = "failed"
        /\ Len(calls[t]) >= 2
        /\ calls[t][Len(calls[t])].req.op = "rollback"
        /\ calls[t][Len(calls[t])].net = "unexpected"
----------------------------------------------------------------------------
(* C21 - C25 *)

InProgressSteps(t) == {i \in 0..(NumSteps(t) - 1) : StepAt(t, i).status = "in_progress"}

\* C21: at most one step of a transaction is in_progress; the forward calls
\* are issued in the order of the steps; and every call but the last one of
\* the history has its outcome, so a call (forward or compensation) is
\* issued only when the outcome of the call before it is known.
C21_Sequential ==
    \A t \in DOMAIN sagas :
        /\ Cardinality(InProgressSteps(t)) <= 1
        /\ \A p, q \in CallsOfKind(t, "forward") :
              p < q => calls[t][p].req.index < calls[t][q].req.index
        /\ \A j \in 1..Len(calls[t]) :
              calls[t][j].net = "pending" => j = Len(calls[t]) /\ inflight[t] = Some(calls[t][j].req)
        /\ IsSome(inflight[t])
              => InProgressSteps(t) = IF Val(inflight[t]).op = "forward"
                                       THEN {Val(inflight[t]).index} ELSE {}

\* the fifth call or a later one of an execution is in flight
C21_Witness ==
    \E t \in DOMAIN sagas :
        /\ IsSome(inflight[t])
        /\ Len(calls[t]) >= 5
        /\ calls[t][Len(calls[t])].net = "pending"

\* C22: a step never has both a result and an error; a step that has a
\* result is completed or compensated, a step that has an error is failed.
C22_ResultErrorExclusive ==
    \A t \in DOMAIN sagas : \A i \in 0..(NumSteps(t) - 1) :
        /\ ~(IsSome(StepAt(t, i).result) /\ IsSome(StepAt(t, i).error))
        /\ IsSome(StepAt(t, i).result) => StepAt(t, i).status \in {"completed", "compensated"}
        /\ IsSome(StepAt(t, i).error) => StepAt(t, i).status = "failed"

\* an execution left a compensated step, a completed step and a failed step
C22_Witness ==
    \E t \in DOMAIN sagas : \E i, j, k \in 0..(NumSteps(t) - 1) :
        /\ Returned(t)
        /\ StepAt(t, i).status = "compensated" /\ IsSome(StepAt(t, i).result)
        /\ StepAt(t, j).status = "completed" /\ IsSome(StepAt(t, j).result)
        /\ StepAt(t, k).status = "failed" /\ IsSome(StepAt(t, k).error)

\* C23: when every step's forward call has succeeded and execute_saga has
\* returned, current_step_index is the number of steps.
C23_IndexIsStepCount ==
    \A t \in DOMAIN sagas :
        (Returned(t) /\ \A i \in 0..(NumSteps(t) - 1) : StepSucceededAt(t, i))
        => sagas[t].current_step_index = NumSteps(t)

\* C24: the forward operation of a step is invoked at most once in an
\* execution, and a step that is failed stays failed.
C24_NoRetries ==
    /\ [](\A t \in DOMAIN sagas : \A i \in 0..(NumSteps(t) - 1) :
            Cardinality(CallsOf(t, "forward", i)) <= 1)
    /\ [][\A t \in (DOMAIN sagas) \cap (DOMAIN sagas') : \A k \in 1..Len(sagas[t].steps) :
            sagas[t].steps[k].status = "failed"
            => /\ sagas'[t].steps[k].status = "failed"
               /\ CallsOf(t, "forward", k - 1)' = CallsOf(t, "forward", k - 1)]_vars

\* a step after the first failed and the sweep that followed has ended
C24_Witness ==
    \E t \in DOMAIN sagas : \E i \in 1..(NumSteps(t) - 1) :
        /\ Returned(t)
        /\ StepAt(t, i).status = "failed"
        /\ CallsOfKind(t, "rollback") # {}
        /\ Cardinality(CallsOf(t, "forward", i)) = 1

\* C25: a step without a rollback_url gets no compensation call and never
\* has status compensated; if its forward call succeeded, its status is
\* completed when the transaction has ended in compensated.
C25_IrreversibleStepStays ==
    \A t \in DOMAIN sagas : \A i \in 0..(NumSteps(t) - 1) :
        ~IsSome(StepAt(t, i).rollback_url)
        => /\ CallsOf(t, "rollback", i) = {}
           /\ StepAt(t, i).status # "compensated"
           /\ (Returned(t) /\ sagas[t].status = "compensated" /\ StepSucceededAt(t, i))
              => StepAt(t, i).status = "completed"

\* a saga ended in compensated with a step compensated and a completed step
\* without rollback_url left as it was
C25_Witness ==
    \E t \in DOMAIN sagas : \E i, j \in 0..(NumSteps(t) - 1) :
        /\ Returned(t)
        /\ sagas[t].status = "compensated"
        /\ ~IsSome(StepAt(t, i).rollback_url)
        /\ StepSucceededAt(t, i)
        /\ CompensatedAt(t, j)

----------------------------------------------------------------------------
(* C26 - C30: the application process *)

UnknownId(transaction_id) ==
    transaction_id \notin (DOMAIN sagas) \cup (DOMAIN transactions)

\* C27: a status query for an identifier the application does not know is
\* answered 404 "Transaction not found" (get_transaction_status gave None),
\* and the step changes nothing but the reply.
C27_UnknownIdNotFound ==
    [][(status_reply' # status_reply /\ UnknownId(Val(status_reply').transaction_id))
       => /\ get_transaction_status(Val(status_reply').transaction_id) = None
          /\ Val(status_reply').status_code = 404
          /\ Val(status_reply').body = ErrorBody("Transaction not found")
          /\ UNCHANGED <<sagas, pc, loop_i, completed_steps, inflight, summary,
                         active_transactions, dbvars, transactions, nextId, calls, lock>>]_vars

\* the unknown id was asked for while one saga had ended and another one was
\* waiting for its participant
C27_Witness ==
    /\ IsSome(status_reply)
    /\ UnknownId(Val(status_reply).transaction_id)
    /\ Val(status_reply).status_code = 404
    /\ \E t, u \in DOMAIN sagas : Returned(t) /\ pc[u] = "await_step"

\* C28: no step of the application takes a record out of the Registry.
C28_RecordNeverDeleted ==
    [][DOMAIN transactions \subseteq DOMAIN transactions']_vars

\* C29: while a thread is inside a Registry operation (it holds db.lock), the
\* store changes only in the step in which that thread finishes the operation.
C29_MutualExclusion ==
    [][(lock # None /\ transactions' # transactions) => lock' = None]_vars

\* the id of the resource the forward call of step i made
CreatedId(t, i) == Val(StepAt(t, i).result)[CreatedKey(StepAt(t, i).url)]

\* the status of step i as the outcomes of the saga's own calls give it
OwnStepStatus(t, i) ==
    IF CompensatedAt(t, i) THEN "compensated"
    ELSE IF StepSucceededAt(t, i) THEN "completed"
    ELSE IF StepFailedAt(t, i) THEN "failed"
    ELSE IF CallsOf(t, "forward", i) # {} THEN "in_progress"
    ELSE "pending"

\* the status code a participant gives a call of a saga whose earlier
\* resources are in place
OwnStatusCode(c) ==
    IF c.req.op = "rollback" THEN 200
    ELSE IF Get(c.req.json, "simulate_failure", FALSE) = TRUE THEN 500
    ELSE 201

\* C30: with execute_saga runs interleaved, each transaction's step statuses
\* and final status are given by the outcomes of its own calls; each of its
\* calls is answered as if it ran alone (no "Related event not found", no 404
\* for a compensation); and a resource it made is in its table until its own
\* compensation call for that step has succeeded.
C30_Independent ==
    \A t \in DOMAIN sagas :
        /\ \A i \in 0..(NumSteps(t) - 1) :
              /\ StepAt(t, i).status = OwnStepStatus(t, i)
              /\ (StepSucceededAt(t, i) /\ ~CompensatedAt(t, i))
                 => CreatedId(t, i) \in DOMAIN TableOf(StepAt(t, i).url)
        /\ \A j \in 1..Len(calls[t]) :
              calls[t][j].net = "response"
              => Val(calls[t][j].status_code) = OwnStatusCode(calls[t][j])
        /\ Returned(t)
           => sagas[t].status =
                 IF \A i \in 0..(NumSteps(t) - 1) : StepSucceededAt(t, i)
                 THEN "completed" ELSE "compensated"

\* saga t has deleted its event and returned while saga u, whose event was
\* made before t's, still waits for the answer to its second call
C30_Witness ==
    \E t, u \in DOMAIN sagas :
        /\ t # u
        /\ Returned(t)
        /\ CompensatedAt(t, 0)
        /\ pc[u] = "await_step"
        /\ StepSucceededAt(u, 0)
        /\ CreatedId(u, 0) < CreatedId(t, 0)
        /\ DOMAIN events = {CreatedId(u, 0)}

----------------------------------------------------------------------------
(* C31 - C39: the participants, the builder, the index and the sweep *)

\* JSON bodies a client can post to the register route of a participant: the
\* built payload of its step with the ids of the records present or of no
\* record (0), with and without the failure flag, the payload with one field
\* left out, and the empty body
RegisterBodies(api) ==
    LET k == CHOOSE n \in 1..Len(BuiltSteps) : BuiltSteps[n].url = api
        full == {Update(BuiltSteps[k].payload,
                        [event_id |-> e, venue_id |-> v, simulate_failure |-> f]) :
                    e \in (DOMAIN events) \cup {0},
                    v \in (DOMAIN venues) \cup {0},
                    f \in BOOLEAN}
        base == Update(BuiltSteps[k].payload,
                       [event_id |-> 0, venue_id |-> 0, simulate_failure |-> FALSE])
    IN full \cup {Del(base, key) : key \in {"name", "event_id", "venue_id", "category", "price"}}
            \cup {EmptyDict}

\* the forward call of saga t that is answered in this step gets a response
\* that is not a success
ForwardRefusedNow(t) ==
    /\ pc[t] = "await_step"
    /\ pc'[t] # "await_step"
    /\ calls'[t][Len(calls'[t])].net = "response"
    /\ Val(calls'[t][Len(calls'[t])].status_code) \notin {200, 201}

\* C31: in every reachable state of the stores, a register request that is
\* answered with another status than 201 (400 for an empty body, a missing
\* field, a related event or venue that is not there; 500 for a simulated
\* failure) leaves the four tables as they are; and so does every forward
\* call of an execution that is answered with such a status.
C31_RefusedRegisterNoChange ==
    /\ [](\A api \in Apis : \A data \in RegisterBodies(api) :
             LET resp == RouteRegister(api, data, DB, nextId)
             IN /\ resp.status_code \in {201, 400, 500}
                /\ resp.status_code # 201 => resp.db = DB)
    /\ [][\A t \in DOMAIN sagas : ForwardRefusedNow(t) => UNCHANGED dbvars]_vars

\* a forward call of a saga was answered 400 when an event was registered
C31_Witness ==
    \E t \in DOMAIN sagas : \E j \in 1..Len(calls[t]) :
        /\ calls[t][j].req.op = "forward"
        /\ calls[t][j].net = "response"
        /\ calls[t][j].status_code = Some(400)
        /\ DOMAIN events # {}

\* the id segments of a rollback URL: the ids of the records of a table, the
\* id of no record (0), and a placeholder left in the URL (None)
RollbackTargets(api) == {Some(id) : id \in (DOMAIN TableOf(api)) \cup {0}} \cup {None}

\* the four tables of a snapshot, by API
TablesOf(db) ==
    [api \in Apis |-> CASE api = "event" -> db.events
                        [] api = "event-details" -> db.event_details
                        [] api = "venue" -> db.venues
                        [] api = "ticket" -> db.tickets]

\* the compensation call of saga t is answered in this step
RollbackAnsweredNow(t) ==
    /\ pc[t] = "await_rollback"
    /\ pc'[t] # "await_rollback"
    /\ calls'[t][Len(calls'[t])].net = "response"

\* C32: in every reachable state of the stores, a rollback request for the id
\* of a record is answered 200 and takes exactly that record out of its table
\* (the other records and tables stay), after which the same request is
\* answered 404; a rollback request for anything else is answered 404 and
\* leaves the tables as they are.  The compensation calls of an execution
\* are answered in that way.
C32_RollbackById ==
    /\ [](\A api \in Apis : \A target \in RollbackTargets(api) :
             LET resp == RouteRollback(api, target, DB)
                 again == RouteRollback(api, target, resp.db)
             IN /\ IF IsSome(target) /\ Val(target) \in DOMAIN TableOf(api)
                   THEN /\ resp.status_code = 200
                        /\ TablesOf(resp.db) =
                              [TablesOf(DB) EXCEPT ![api] = Del(@, Val(target))]
                   ELSE /\ resp.status_code = 404
                        /\ resp.db = DB
                /\ again.status_code = 404
                /\ again.db = resp.db)
    /\ [][\A t \in DOMAIN sagas :
             RollbackAnsweredNow(t)
             => LET req == Val(inflight[t])
                    code == Val(calls'[t][Len(calls'[t])].status_code)
                IN IF IsSome(req.target) /\ Val(req.target) \in DOMAIN TableOf(req.url)
                   THEN /\ code = 200
                        /\ TablesOf(DB)' = [TablesOf(DB) EXCEPT ![req.url] = Del(@, Val(req.target))]
                   ELSE /\ code = 404
                        /\ UNCHANGED dbvars]_vars

\* a compensation call for an event was answered 200, another one was
\* answered 404, and an event is left in the table
C32_Witness ==
    \E t \in DOMAIN sagas : \E j, k \in 1..Len(calls[t]) :
        /\ calls[t][j].req.op = "rollback"
        /\ calls[t][j].req.url = "event"
        /\ calls[t][j].status_code = Some(200)
        /\ calls[t][k].req.op = "rollback"
        /\ calls[t][k].status_code = Some(404)
        /\ DOMAIN events # {}

\* the value of fail_at_step that names step k (from 1) of the built saga
FailKeys == <<"event", "event_details", "venue", "ticket">>

\* what the claim says of a transaction built from event_data
BuiltAsClaimed(saga_transaction, event_data) ==
    /\ saga_transaction.status = "pending"
    /\ saga_transaction.current_step_index = 0
    /\ saga_transaction.metadata = event_data
    /\ Len(saga_transaction.steps) = 4
    /\ [k \in 1..4 |-> saga_transaction.steps[k].url]
          = <<"event", "event-details", "venue", "ticket">>
    /\ \A k \in 1..4 :
          /\ saga_transaction.steps[k].status = "pending"
          /\ saga_transaction.steps[k].result = None
          /\ saga_transaction.steps[k].error = None
          /\ saga_transaction.steps[k].payload["simulate_failure"]
                = (Has(event_data, "fail_at_step") /\ event_data["fail_at_step"] = FailKeys[k])

\* C33: create_event_management_saga gives a pending transaction of four
\* pending steps in the order event, event-details, venue, ticket, with
\* simulate_failure true on the step fail_at_step names and false on the
\* others (false on all when fail_at_step is absent or names no step); and a
\* transaction an endpoint has built and not yet executed is such a one.
C33_BuiltSaga ==
    /\ \A event_data \in EventData :
          BuiltAsClaimed(create_event_management_saga(event_data, nextId), event_data)
    /\ \A t \in DOMAIN sagas :
          (pc[t] = "created" /\ EventManagementSaga(t))
          => BuiltAsClaimed(sagas[t], sagas[t].metadata)

\* a saga is built with fail_at_step "venue": the flag is set on its third
\* step and on no other
C33_Witness ==
    \E t \in DOMAIN sagas :
        /\ pc[t] = "created"
        /\ EventManagementSaga(t)
        /\ FailAtStep(t) = "venue"
        /\ {k \in 1..4 : sagas[t].steps[k].payload["simulate_failure"]} = {3}

\* C34: in every state of an execution current_step_index is at least 0 and
\* at most the number of steps, and a step that is in_progress is the step at
\* that index; and no step of the execution makes the index smaller.
C34_IndexBoundsMonotone ==
    /\ [](\A t \in DOMAIN sagas :
             /\ 0 <= sagas[t].current_step_index
             /\ sagas[t].current_step_index <= NumSteps(t)
             /\ \A i \in 0..(NumSteps(t) - 1) :
                   StepAt(t, i).status = "in_progress" => sagas[t].current_step_index = i)
    /\ [][\A t \in DOMAIN sagas :
             sagas'[t].current_step_index >= sagas[t].current_step_index]_vars

\* the fourth step of a saga is in_progress and the index is 3
C34_Witness ==
    \E t \in DOMAIN sagas :
        /\ NumSteps(t) >= 4
        /\ StepAt(t, 3).status = "in_progress"
        /\ sagas[t].current_step_index = 3
        /\ pc[t] = "await_step"

\* saga t has a step for api whose result names id and whose compensation
\* call came back with 200/204
DeletedByCompensation(t, api, id) ==
    \E e \in 0..(NumSteps(t) - 1) :
        /\ StepAt(t, e).url = api
        /\ CompensatedAt(t, e)
        /\ CreatedId(t, e) = id

\* the details and ticket records in the stores that reference an event or a
\* venue saga t has deleted by compensation
Orphans(t) ==
    {<<"event-details", d>> : d \in {x \in DOMAIN event_details :
        DeletedByCompensation(t, "event", event_details[x].event_id)}}
    \cup
    {<<"ticket", d>> : d \in {x \in DOMAIN tickets :
        \/ DeletedByCompensation(t, "event", tickets[x].event_id)
        \/ DeletedByCompensation(t, "venue", tickets[x].venue_id)}}

\* the record is the result of a step of t whose compensation call was
\* issued and did not come back with 200/204
CompensationFailedFor(t, o) ==
    \E i \in 0..(NumSteps(t) - 1) :
        /\ StepAt(t, i).url = o[1]
        /\ IsSome(StepAt(t, i).result)
        /\ CreatedId(t, i) = o[2]
        /\ CallsOf(t, "rollback", i) # {}
        /\ ~CompensatedAt(t, i)

\* a forward call of t to the API of the record was answered with a body
\* that could not be decoded, so the step has no result
CreatedUndecoded(t, o) ==
    \E i \in 0..(NumSteps(t) - 1) : \E j \in CallsOf(t, "forward", i) :
        /\ StepAt(t, i).url = o[1]
        /\ calls[t][j].net = "undecodable"

C36_PrefixInvariant ==
    \A t \in DOMAIN sagas : \A i \in 0..(NumSteps(t) - 1) :
        /\ StepAt(t, i).status # "pending"
           => \A k \in 0..(i - 1) : StepAt(t, k).status # "pending"
        /\ StepAt(t, i).status \in {"in_progress", "failed"}
           => \A k \in 0..(i - 1) : StepAt(t, k).status \in {"completed", "compensated"}

\* a compensated step, a completed step, the failed step and a pending step,
\* in that order
C36_Witness ==
    \E t \in DOMAIN sagas :
        /\ NumSteps(t) >= 4
        /\ StepAt(t, 0).status = "compensated"
        /\ StepAt(t, 1).status = "completed"
        /\ StepAt(t, 2).status = "failed"
        /\ StepAt(t, 3).status = "pending"

\* C37: a step is compensated only if a compensation call for it came back
\* with 200/204, that call was addressed to the id its own result names, and
\* the record with that id is not in the participant's table; and every
\* compensation call for a step goes to the API of the step and is addressed
\* to the id of the step's own result, or to no record at all when the
\* placeholder of the URL is not a key of the result.
C37_CompensatedMeansDeleted ==
    \A t \in DOMAIN sagas : \A i \in 0..(NumSteps(t) - 1) :
        /\ StepAt(t, i).status = "compensated"
           => /\ \E j \in CallsOf(t, "rollback", i) :
                    /\ RollbackSuccess(calls[t][j])
                    /\ calls[t][j].req.target = Some(CreatedId(t, i))
              /\ CreatedId(t, i) \notin DOMAIN TableOf(StepAt(t, i).url)
        /\ \A j \in CallsOf(t, "rollback", i) :
              /\ IsSome(StepAt(t, i).result)
              /\ calls[t][j].req.url = StepAt(t, i).url
              /\ calls[t][j].req.target \in {None, Some(CreatedId(t, i))}

\* the details step and the event step of a saga are compensated, each by
\* its own call, and their tables are empty
C37_Witness ==
    \E t \in DOMAIN sagas : \E i, k \in 0..(NumSteps(t) - 1) :
        /\ StepAt(t, i).url = "event-details"
        /\ StepAt(t, i).status = "compensated"
        /\ StepAt(t, k).url = "event"
        /\ StepAt(t, k).status = "compensated"
        /\ DOMAIN event_details = {}
        /\ DOMAIN events = {}

\* C38: a transaction whose status is completed has no compensation call in
\* its history and no step that is compensated or failed; a compensation
\* call is in flight only in status compensating; and the step that issues
\* a compensation call starts and ends in status compensating.
C38_CompensationOnlyAfterFailure ==
    /\ [](\A t \in DOMAIN sagas :
             /\ sagas[t].status = "completed"
                => /\ CallsOfKind(t, "rollback") = {}
                   /\ \A i \in 0..(NumSteps(t) - 1) :
                         StepAt(t, i).status \notin {"compensated", "failed"}
             /\ pc[t] = "await_rollback" => sagas[t].status = "compensating"
             /\ CallsOfKind(t, "rollback") # {}
                => \E i \in 0..(NumSteps(t) - 1) : StepAt(t, i).status = "failed")
    /\ [][\A t \in DOMAIN sagas :
             Cardinality(CallsOfKind(t, "rollback")') > Cardinality(CallsOfKind(t, "rollback"))
             => /\ sagas[t].status = "compensating"
                /\ sagas'[t].status = "compensating"]_vars

\* the third compensation call of a sweep is in flight
C38_Witness ==
    \E t \in DOMAIN sagas :
        /\ pc[t] = "await_rollback"
        /\ sagas[t].status = "compensating"
        /\ Cardinality(CallsOfKind(t, "rollback")) = 3

\* execute_saga is entered for saga t in this step
BeginsNow(t) == pc[t] = "created" /\ pc'[t] # "created"

\* C39: in every reachable state, update_transaction with an id that is not
\* a key gives back the Registry as it is, and create_transaction gives the
\* Registry with one more record, under a key that was not there, and the
\* old records as they were.  The step in which execute_saga is entered adds
\* one record in that way, and no other step of execute_saga changes the
\* Registry (its update_transaction calls pass the transaction's id, which
\* is not a key): after a run the Registry has one record more than before.
C39_OneRecordPerRun ==
    /\ [](/\ \A transaction_id \in ((DOMAIN sagas) \cup {0, nextId}) \ DOMAIN transactions :
                \A updates \in RegistryUpdates :
                    update_transaction(transactions, transaction_id, updates) = transactions
          /\ \A transaction_data \in RegistryData \cup {RegistryEntry(sagas[t]) : t \in DOMAIN sagas} :
                LET txs == create_transaction(transactions, nextId, transaction_data)
                IN /\ nextId \notin DOMAIN transactions
                   /\ DOMAIN txs = (DOMAIN transactions) \cup {nextId}
                   /\ \A k \in DOMAIN transactions : txs[k] = transactions[k]
          /\ \A t \in DOMAIN sagas :
                Cardinality(DOMAIN transactions) = IF pc[t] = "created" THEN 0 ELSE 1)
    /\ [][\A t \in DOMAIN sagas :
             IF BeginsNow(t)
             THEN /\ Cardinality(DOMAIN transactions') = Cardinality(DOMAIN transactions) + 1
                  /\ DOMAIN transactions \subseteq DOMAIN transactions'
                  /\ \A k \in DOMAIN transactions : transactions'[k] = transactions[k]
             ELSE transactions' = transactions]_vars

\* a run that called update_transaction at its end has returned: the
\* Registry holds the one record made at its beginning, as it was made
C39_Witness ==
    \E t \in DOMAIN sagas :
        /\ Returned(t)
        /\ sagas[t].status = "completed"
        /\ NumSteps(t) >= 1
        /\ Cardinality(DOMAIN transactions) = 1
        /\ t \notin DOMAIN transactions
        /\ \A k \in DOMAIN transactions : transactions[k].status = "pending"

============================================================================
